---------------------------- MODULE Spec2Model ----------------------------
(***************************************************************************)
(* Model of the geodesic integration core of black-hole-laboratory         *)
(* (simulation/src/lib.rs): the two ray sessions LightRay and KerrLightRay, *)
(* their step() state machine, the fixed-step RK4 and the adaptive RKF45    *)
(* integrator, and the black-hole / conserved-quantity helpers they use.   *)
(*                                                                         *)
(* f32 is modelled as a small floating format: the finite values are the   *)
(* integer multiples of 1/Scale with magnitude at most FMax/Scale, plus    *)
(* +inf, -inf and NaN.  Every arithmetic operator rounds toward zero to    *)
(* the grid, overflows to an infinity, and propagates NaN the way IEEE-754 *)
(* does; comparisons with NaN are false.  Signed zeros are not modelled.   *)
(***************************************************************************)
EXTENDS Integers, Sequences, FiniteSets, TLC

(***************************************************************************)
(* The floating format.                                                    *)
(***************************************************************************)
Scale == 1000

FMax == 1000000000

PInf == FMax + 1

NInf == -(FMax + 1)

NaN == FMax + 2

IsNaN(x) == x = NaN

IsInf(x) == x = PInf \/ x = NInf

IsFin(x) == x >= -FMax /\ x <= FMax

Sgn(x) == IF x > 0 THEN 1 ELSE IF x < 0 THEN -1 ELSE 0

Mag(x) == IF x < 0 THEN -x ELSE x

\* A finite integer result brought back into the format.
Sat(v) == IF v > FMax THEN PInf ELSE IF v < -FMax THEN NInf ELSE v

SignedInf(s) == IF s < 0 THEN NInf ELSE PInf

\* The literal n/d of the source, rounded to the nearest grid value.
Q(n, d) == Sgn(n) * ((2 * Mag(n) * Scale + d) \div (2 * d))

FNeg(a) == IF IsNaN(a) THEN NaN ELSE -a

FAbs(a) == IF IsNaN(a) THEN NaN ELSE Mag(a)

FAdd(a, b) ==
    IF IsNaN(a) \/ IsNaN(b) THEN NaN
    ELSE IF IsInf(a) THEN (IF IsInf(b) /\ a # b THEN NaN ELSE a)
    ELSE IF IsInf(b) THEN b
    ELSE Sat(a + b)

FSub(a, b) == FAdd(a, FNeg(b))

\* |a| * |b| / Scale for finite a, b without leaving 32-bit integers;
\* FMax + 1 stands for an overflow of the format.
MulMag(x, y) ==
    LET qa == x \div Scale
        ra == x % Scale
        qb == y \div Scale
        rb == y % Scale
        limit == FMax \div Scale
    IN  IF qa > 0 /\ qb > 0 /\ qa > limit \div qb THEN FMax + 1
        ELSE LET big == qa * qb * Scale
                 mid == qa * rb + ra * qb
                 low == (ra * rb) \div Scale
             IN  IF mid > FMax - big THEN FMax + 1 ELSE big + mid + low

FMul(a, b) ==
    IF IsNaN(a) \/ IsNaN(b) THEN NaN
    ELSE IF IsInf(a) \/ IsInf(b)
         THEN (IF a = 0 \/ b = 0 THEN NaN ELSE SignedInf(Sgn(a) * Sgn(b)))
    ELSE Sat(Sgn(a) * Sgn(b) * MulMag(Mag(a), Mag(b)))

\* |a| * Scale / |b| for finite a and finite b # 0.
DivMag(x, y) ==
    LET q == x \div y
        r == x % y
        frac == IF r <= 2000000 THEN (r * Scale) \div y
                ELSE LET f == r \div (y \div Scale)
                     IN  IF f >= Scale THEN Scale - 1 ELSE f
    IN  IF q > FMax \div Scale THEN FMax + 1 ELSE q * Scale + frac

FDiv(a, b) ==
    IF IsNaN(a) \/ IsNaN(b) THEN NaN
    ELSE IF IsInf(a) THEN (IF IsInf(b) THEN NaN
                           ELSE SignedInf(Sgn(a) * (IF b < 0 THEN -1 ELSE 1)))
    ELSE IF IsInf(b) THEN 0
    ELSE IF b = 0 THEN (IF a = 0 THEN NaN ELSE SignedInf(Sgn(a)))
    ELSE Sat(Sgn(a) * Sgn(b) * DivMag(Mag(a), Mag(b)))

\* IEEE comparisons: false as soon as an operand is NaN.
FLe(a, b) == ~IsNaN(a) /\ ~IsNaN(b) /\ a <= b

FLt(a, b) == ~IsNaN(a) /\ ~IsNaN(b) /\ a < b

FGe(a, b) == FLe(b, a)

FGt(a, b) == FLt(b, a)

\* f32::max: a NaN operand is ignored.
FMaxOf(a, b) == IF IsNaN(a) THEN b ELSE IF IsNaN(b) THEN a ELSE IF a >= b THEN a ELSE b

\* f32::clamp (for min <= max): NaN stays NaN.
FClamp(x, lo, hi) == IF FLt(x, lo) THEN lo ELSE IF FGt(x, hi) THEN hi ELSE x

\* s * s <= v * Scale, exactly.
SqLe(s, v) ==
    LET f == MulMag(s, s)
    IN  f < v \/ (f = v /\ ((s % Scale) * (s % Scale)) % Scale = 0)

\* The greatest s in lo..hi with s * s <= v * Scale, by bisection.
RECURSIVE SqrtSearch(_, _, _)
SqrtSearch(v, lo, hi) ==
    IF lo >= hi THEN lo
    ELSE LET mid == (lo + hi + 1) \div 2
         IN  IF SqLe(mid, v) THEN SqrtSearch(v, mid, hi)
             ELSE SqrtSearch(v, lo, mid - 1)

FSqrt(a) ==
    IF IsNaN(a) \/ a < 0 THEN NaN
    ELSE IF a = PInf THEN PInf
    ELSE SqrtSearch(a, 0, IF a < Scale THEN Scale ELSE a)

\* x^5 on the grid (FMax + 1 on overflow).
Pow5Mag(x) ==
    LET x2 == MulMag(x, x)
        x4 == IF x2 > FMax THEN x2 ELSE MulMag(x2, x2)
    IN  IF x4 > FMax THEN x4 ELSE MulMag(x4, x)

\* The least x in lo..hi with x^5 >= v, by bisection.
RECURSIVE RootSearch(_, _, _)
RootSearch(v, lo, hi) ==
    IF lo >= hi THEN lo
    ELSE LET mid == (lo + hi) \div 2
         IN  IF Pow5Mag(mid) >= v THEN RootSearch(v, lo, mid)
             ELSE RootSearch(v, mid + 1, hi)

\* powf(0.2)
FPow02(a) ==
    IF IsNaN(a) \/ a < 0 THEN NaN
    ELSE IF a = PInf THEN PInf
    ELSE RootSearch(a, 0, IF a < Scale THEN Scale ELSE a)

(***************************************************************************)
(* sin, cos, acos, atan2 on the grid.  sin is Bhaskara's rational          *)
(* approximation on [0, pi], extended by symmetry; it is exact at 0, pi/2  *)
(* and pi.                                                                 *)
(***************************************************************************)
Pi == Q(355, 113)

HalfPi == Pi \div 2

SinArc(x) ==
    LET u == MulMag(x, Pi - x)
    IN  (16 * u * Scale) \div (5 * MulMag(Pi, Pi) - 4 * u)

FSin(a) ==
    IF ~IsFin(a) THEN NaN
    ELSE LET m == a % (2 * Pi)
         IN  IF m <= Pi THEN SinArc(m) ELSE -SinArc(m - Pi)

FCos(a) == IF ~IsFin(a) THEN NaN ELSE FSin(a + HalfPi)

\* The least angle in lo..hi whose cosine is at most c (cos decreases on
\* [0, pi]).
RECURSIVE AcosSearch(_, _, _)
AcosSearch(c, lo, hi) ==
    IF lo >= hi THEN lo
    ELSE LET mid == (lo + hi) \div 2
         IN  IF FCos(mid) <= c THEN AcosSearch(c, lo, mid)
             ELSE AcosSearch(c, mid + 1, hi)

FAcos(c) ==
    IF IsNaN(c) \/ c > Scale \/ c < -Scale THEN NaN
    ELSE IF c = Scale THEN 0
    ELSE IF c = -Scale THEN Pi
    ELSE AcosSearch(c, 0, Pi)

FAtan2(y, x) ==
    IF IsNaN(y) \/ IsNaN(x) THEN NaN
    ELSE IF x = 0 /\ y = 0 THEN 0
    ELSE LET h == FSqrt(FAdd(FMul(x, x), FMul(y, y)))
             a == FAcos(FDiv(x, h))
         IN  IF y < 0 THEN FNeg(a) ELSE a

\* The literal n.0 of the source.
Lit(n) == n * Scale

(***************************************************************************)
(* Geodesic: position (t, r, theta, phi) and momentum, indexed 1..4 for    *)
(* the source's 0..3.                                                      *)
(***************************************************************************)
GeodesicNew(position, momentum) == [position |-> position, momentum |-> momentum]

radius(g) == g.position[2]

\* is_inside_event_horizon with the horizon itself left outside.
is_inside_event_horizon_strict(g, mass) == FLt(radius(g), FMul(Lit(2), mass))

is_inside_event_horizon(g, mass) == FLe(radius(g), FMul(Lit(2), mass))

(***************************************************************************)
(* KerrBlackHole and the kerr_schild helpers.                              *)
(***************************************************************************)
\* f32::clamp panics when its bounds are not ordered: min > max, or a NaN.
ClampPanics(lo, hi) == ~FLe(lo, hi)

\* KerrBlackHole::new panics in spin.clamp(-mass, mass).
KerrBlackHoleNewPanics(mass, spin) == ClampPanics(FNeg(mass), mass)

\* KerrBlackHole::new, when it returns.
KerrBlackHoleNew(mass, spin) == [mass |-> mass, spin |-> FClamp(spin, FNeg(mass), mass)]

outer_horizon(bh) ==
    FAdd(bh.mass, FSqrt(FSub(FMul(bh.mass, bh.mass), FMul(bh.spin, bh.spin))))

sigma(r, theta, spin) ==
    FAdd(FMul(r, r), FMul(FMul(spin, spin), FMul(FCos(theta), FCos(theta))))

delta(r, mass, spin) ==
    FAdd(FSub(FMul(r, r), FMul(FMul(Lit(2), mass), r)), FMul(spin, spin))

is_inside_horizon(r, bh) == FLe(r, outer_horizon(bh))

inner_horizon(bh) ==
    FSub(bh.mass, FSqrt(FSub(FMul(bh.mass, bh.mass), FMul(bh.spin, bh.spin))))

ergosphere_radius(bh, theta) ==
    FAdd(bh.mass,
         FSqrt(FSub(FMul(bh.mass, bh.mass),
                    FMul(FMul(bh.spin, bh.spin), FMul(FCos(theta), FCos(theta))))))

\* The threshold 1e-10 of spin.abs() > 1e-10 lies below the grid: every
\* non-zero spin of the format exceeds it.
SpinThreshold == 0

\* 2.0 * mass * r / sig
TwoMrOverSigma(mass, r, sig) == FDiv(FMul(FMul(Lit(2), mass), r), sig)

\* kerr_schild::metric_components, from sig and sin^2 on (the values _del,
\* _a_func and _cos_theta of the source are computed and not used).
MetricFrom(r, mass, spin, sig, sin2) ==
    LET g_tt == FNeg(FSub(Lit(1), TwoMrOverSigma(mass, r, sig)))
        g_tr == IF FGt(FAbs(spin), SpinThreshold)
                THEN TwoMrOverSigma(mass, r, sig) ELSE 0
        g_tphi == FDiv(FMul(FMul(FMul(FMul(Lit(-2), mass), r), spin), sin2), sig)
        g_rr == IF FGt(FAbs(spin), SpinThreshold)
                THEN FAdd(Lit(1), TwoMrOverSigma(mass, r, sig))
                ELSE FDiv(sig, FSub(sig, FMul(FMul(Lit(2), mass), r)))
        g_rphi == FMul(FMul(FNeg(spin), sin2),
                       FAdd(Lit(1), TwoMrOverSigma(mass, r, sig)))
        g_phiphi ==
            FMul(sin2,
                 FAdd(sig, FMul(FMul(FMul(spin, spin), sin2),
                                FAdd(Lit(1), TwoMrOverSigma(mass, r, sig)))))
    IN  << <<g_tt, g_tr, 0, g_tphi>>,
           <<g_tr, g_rr, 0, g_rphi>>,
           <<0, 0, sig, 0>>,
           <<g_tphi, g_rphi, 0, g_phiphi>> >>

metric_components(r, theta, bh) ==
    MetricFrom(r, bh.mass, bh.spin, sigma(r, theta, bh.spin),
               FMul(FSin(theta), FSin(theta)))

(***************************************************************************)
(* The schwarzschild module.                                               *)
(***************************************************************************)
g_tt(mass, r) == FNeg(FSub(Lit(1), FDiv(FMul(Lit(2), mass), r)))

g_rr(mass, r) == FDiv(Lit(1), FSub(Lit(1), FDiv(FMul(Lit(2), mass), r)))

g_theta_theta(r) == FMul(r, r)

g_phi_phi(r, theta) == FMul(FMul(r, r), FMul(FSin(theta), FSin(theta)))

(***************************************************************************)
(* ConservedQuantities::from_initial_conditions                            *)
(***************************************************************************)
from_initial_conditions_EnergyIsPt(position, momentum, mass, spin) ==
    LET theta == position[3]
        pt == momentum[1]
        ptheta == momentum[3]
        pphi == momentum[4]
        sin_theta == FSin(theta)
        cos2 == FMul(FCos(theta), FCos(theta))
        energy == pt
        angular_momentum_z == pphi
        carter_constant ==
            FAdd(FMul(ptheta, ptheta),
                 FMul(cos2,
                      FAdd(FMul(FMul(spin, spin), FSub(FMul(energy, energy), Lit(1))),
                           FDiv(FMul(angular_momentum_z, angular_momentum_z),
                                FMul(sin_theta, sin_theta)))))
    IN  [energy |-> energy,
         angular_momentum_z |-> angular_momentum_z,
         carter_constant |-> carter_constant]

from_initial_conditions(position, momentum, mass, spin) ==
    LET theta == position[3]
        pt == momentum[1]
        ptheta == momentum[3]
        pphi == momentum[4]
        sin_theta == FSin(theta)
        cos2 == FMul(FCos(theta), FCos(theta))
        energy == FNeg(pt)
        angular_momentum_z == pphi
        carter_constant ==
            FAdd(FMul(ptheta, ptheta),
                 FMul(cos2,
                      FAdd(FMul(FMul(spin, spin), FSub(FMul(energy, energy), Lit(1))),
                           FDiv(FMul(angular_momentum_z, angular_momentum_z),
                                FMul(sin_theta, sin_theta)))))
    IN  [energy |-> energy,
         angular_momentum_z |-> angular_momentum_z,
         carter_constant |-> carter_constant]

(***************************************************************************)
(* AdaptiveRK45                                                            *)
(***************************************************************************)
\* AdaptiveRK45::default().  1e-6 and 1e-8 lie below the grid: the tolerances
\* are the smallest positive value of the format, min_step the smallest
\* step whose product with safety_factor is still positive, as it is in f32.
AdaptiveRK45Default ==
    [abs_tolerance |-> 1,
     rel_tolerance |-> 1,
     min_step |-> 2,
     max_step |-> Lit(1),
     safety_factor |-> Q(9, 10)]

\* The error floor 1e-14 of the ratio, the smallest positive value.
ErrorFloor == 1

\* RK45 Butcher tableau coefficients (rows 2..6 of a; row 1 is all zero).
ButcherA ==
    << <<Q(1, 4)>>,
       <<Q(3, 32), Q(9, 32)>>,
       <<Q(1932, 2197), Q(-7200, 2197), Q(7296, 2197)>>,
       <<Q(439, 216), Lit(-8), Q(3680, 513), Q(-845, 4104)>>,
       <<Q(-8, 27), Lit(2), Q(-3544, 2565), Q(1859, 4104), Q(-11, 40)>> >>

ButcherB4 == <<Q(25, 216), 0, Q(1408, 2565), Q(2197, 4104), Q(-1, 5), 0>>

ButcherB5 == <<Q(16, 135), 0, Q(6656, 12825), Q(28561, 56430), Q(-9, 50), Q(2, 55)>>

add_k_to_state(state, k, factor) ==
    [position |-> [i \in 1..4 |-> FAdd(state.position[i], FMul(factor, k.position[i]))],
     momentum |-> [i \in 1..4 |-> FAdd(state.momentum[i], FMul(factor, k.momentum[i]))]]

RECURSIVE ErrorFrom(_, _, _, _)
ErrorFrom(y4, y5, i, max_error) ==
    IF i > 4 THEN max_error
    ELSE LET pos_error == FAbs(FSub(y5.position[i], y4.position[i]))
             mom_error == FAbs(FSub(y5.momentum[i], y4.momentum[i]))
         IN  ErrorFrom(y4, y5, i + 1, FMaxOf(FMaxOf(max_error, pos_error), mom_error))

estimate_error(y4, y5) == ErrorFrom(y4, y5, 1, 0)

RECURSIVE NormFrom(_, _, _)
NormFrom(state, i, norm) ==
    IF i > 4 THEN norm
    ELSE NormFrom(state, i + 1,
                  FAdd(FAdd(norm, FMul(state.position[i], state.position[i])),
                       FMul(state.momentum[i], state.momentum[i])))

state_norm(state) == FSqrt(NormFrom(state, 1, 0))

(***************************************************************************)
(* Derivative functions.  A derivative function is a record: its id and    *)
(* what the closure captures.                                              *)
(***************************************************************************)
\* The polar potential of compute_kerr_derivatives, with the rest mass term
\* of the photon written 0.0 as in the source.
KerrThetaPotential(e, lz, q, spin, sin2, cos2) ==
    FSub(q, FMul(cos2,
                 FAdd(FMul(FMul(spin, spin), FSub(0, FMul(e, e))),
                      FDiv(FMul(lz, lz), sin2))))

\* The rates with the ingoing (negative) root taken for dr/dlambda.
KerrRates_IngoingRoot(e, lz, q, spin, sig, del, sin2, cos2, r2a2) ==
    LET dt_dlambda ==
            FAdd(FDiv(FMul(FMul(FDiv(Lit(1), del),
                                FSub(FMul(r2a2, e), FMul(spin, lz))),
                           r2a2),
                      sig),
                 FMul(FMul(spin, e), sin2))
        term1 == FSub(FMul(e, r2a2), FMul(spin, lz))
        term2 == FSub(lz, FMul(spin, e))
        radial_potential ==
            FSub(FMul(term1, term1), FMul(del, FAdd(FMul(term2, term2), q)))
        dr_dlambda ==
            IF FGe(radial_potential, 0)
            THEN FNeg(FDiv(FSqrt(radial_potential), sig)) ELSE 0
        theta_potential ==
            FSub(q, FMul(cos2,
                         FAdd(FMul(FMul(spin, spin), FSub(0, FMul(e, e))),
                              FDiv(FMul(lz, lz), sin2))))
        dtheta_dlambda ==
            IF FGe(theta_potential, 0) THEN FDiv(FSqrt(theta_potential), sig) ELSE 0
        dphi_dlambda ==
            FAdd(FMul(FDiv(Lit(1), del),
                      FAdd(FMul(FNeg(spin), e), FDiv(lz, sin2))),
                 FDiv(FMul(spin, e), sig))
    IN  <<dt_dlambda, dr_dlambda, dtheta_dlambda, dphi_dlambda>>

\* KerrLightRay::compute_kerr_derivatives, from the metric functions on.
KerrRates(e, lz, q, spin, sig, del, sin2, cos2, r2a2) ==
    LET dt_dlambda ==
            FAdd(FDiv(FMul(FMul(FDiv(Lit(1), del),
                                FSub(FMul(r2a2, e), FMul(spin, lz))),
                           r2a2),
                      sig),
                 FMul(FMul(spin, e), sin2))
        term1 == FSub(FMul(e, r2a2), FMul(spin, lz))
        term2 == FSub(lz, FMul(spin, e))
        radial_potential ==
            FSub(FMul(term1, term1), FMul(del, FAdd(FMul(term2, term2), q)))
        dr_dlambda ==
            IF FGe(radial_potential, 0) THEN FDiv(FSqrt(radial_potential), sig) ELSE 0
        theta_potential == KerrThetaPotential(e, lz, q, spin, sin2, cos2)
        dtheta_dlambda ==
            IF FGe(theta_potential, 0) THEN FDiv(FSqrt(theta_potential), sig) ELSE 0
        dphi_dlambda ==
            FAdd(FMul(FDiv(Lit(1), del),
                      FAdd(FMul(FNeg(spin), e), FDiv(lz, sin2))),
                 FDiv(FMul(spin, e), sig))
    IN  <<dt_dlambda, dr_dlambda, dtheta_dlambda, dphi_dlambda>>

\* mom_deriv = pos_deriv
KerrDerivative(pos_deriv) == GeodesicNew(pos_deriv, pos_deriv)

compute_kerr_derivatives_RadialFromMomentum(conserved, black_hole, state) ==
    KerrDerivative(
        [KerrRates(conserved.energy, conserved.angular_momentum_z,
                   conserved.carter_constant, black_hole.spin,
                   sigma(state.position[2], state.position[3], black_hole.spin),
                   delta(state.position[2], black_hole.mass, black_hole.spin),
                   FMul(FSin(state.position[3]), FSin(state.position[3])),
                   FMul(FCos(state.position[3]), FCos(state.position[3])),
                   FAdd(FMul(state.position[2], state.position[2]),
                        FMul(black_hole.spin, black_hole.spin)))
         EXCEPT ![2] = state.momentum[2]])

\* KerrLightRay::compute_kerr_derivatives
compute_kerr_derivatives(conserved, black_hole, state) ==
    KerrDerivative(
        KerrRates(conserved.energy, conserved.angular_momentum_z,
                  conserved.carter_constant, black_hole.spin,
                  sigma(state.position[2], state.position[3], black_hole.spin),
                  delta(state.position[2], black_hole.mass, black_hole.spin),
                  FMul(FSin(state.position[3]), FSin(state.position[3])),
                  FMul(FCos(state.position[3]), FCos(state.position[3])),
                  FAdd(FMul(state.position[2], state.position[2]),
                       FMul(black_hole.spin, black_hole.spin))))

\* The harmonic oscillator of test_adaptive_rk45_integrator:
\* dx/dt = v, dv/dt = -x with x = position[1], v = momentum[2] of the source.
oscillator_derivatives(state) ==
    GeodesicNew(<<0, state.momentum[3], 0, 0>>, <<0, 0, FNeg(state.position[2]), 0>>)

\* A caller's stiff linear system dx/dt = -rate * x: finite wherever x is.
stiff_derivatives(rate, state) ==
    GeodesicNew(<<0, FMul(FNeg(rate), state.position[2]), 0, 0>>, <<0, 0, 0, 0>>)

\* A caller's uniform motion dx/dt = rate.
constant_derivatives(rate, state) == GeodesicNew(<<0, rate, 0, 0>>, <<0, 0, 0, 0>>)

zero_derivatives(state) == GeodesicNew(<<0, 0, 0, 0>>, <<0, 0, 0, 0>>)

\* derivatives_fn(state)
Derivs(fn, state) ==
    CASE fn.id = "kerr" -> compute_kerr_derivatives(fn.conserved, fn.black_hole, state)
      [] fn.id = "oscillator" -> oscillator_derivatives(state)
      [] fn.id = "stiff" -> stiff_derivatives(fn.rate, state)
      [] fn.id = "constant" -> constant_derivatives(fn.rate, state)
      [] OTHER -> zero_derivatives(state)

(***************************************************************************)
(* One activation of AdaptiveRK45::step, up to its accept test: the step   *)
(* used, both estimates, the error, the tolerance and the suggestion.      *)
(***************************************************************************)
\* A run of add_k_to_state calls: state + (h * coefs[j]) * ks[j] for the
\* listed stages j, in order.
RECURSIVE AddKs(_, _, _, _, _)
AddKs(state, ks, h, coefs, stages) ==
    IF stages = <<>> THEN state
    ELSE AddKs(add_k_to_state(state, ks[Head(stages)], FMul(h, coefs[Head(stages)])),
               ks, h, coefs, Tail(stages))

\* k1 .. k6: stage i evaluates the derivative at the state built from
\* k1 .. k(i-1) with row i of the tableau.
RECURSIVE RK45Stages(_, _, _, _)
RK45Stages(state, h, fn, ks) ==
    IF Len(ks) = 6 THEN ks
    ELSE RK45Stages(state, h, fn,
             Append(ks, Derivs(fn, IF ks = <<>> THEN state
                                   ELSE AddKs(state, ks, h, ButcherA[Len(ks)],
                                              [j \in 1..Len(ks) |-> j]))))

\* Step size adjustment and the accept test.
RK45Judge(cfg, h, ks, y4, y5, error, tolerance) ==
    [h |-> h,
     y4 |-> y4,
     y5 |-> y5,
     error |-> error,
     tolerance |-> tolerance,
     suggested_step |->
         FClamp(FMul(FMul(h, cfg.safety_factor),
                     FPow02(FDiv(tolerance, FMaxOf(error, ErrorFloor)))),
                cfg.min_step, cfg.max_step),
     accept |-> FLe(error, tolerance),
     ks |-> ks]

\* Error estimation.
RK45Compare(cfg, state, h, ks, y4, y5) ==
    RK45Judge(cfg, h, ks, y4, y5, estimate_error(y4, y5),
              FAdd(cfg.abs_tolerance, FMul(cfg.rel_tolerance, state_norm(state))))

\* The 4th and the 5th order solution.
RK45Solutions(cfg, state, h, ks) ==
    RK45Compare(cfg, state, h, ks,
                AddKs(state, ks, h, ButcherB4, <<1, 3, 4, 5>>),
                AddKs(state, ks, h, ButcherB5, <<1, 3, 4, 5, 6>>))

RK45WithStep(cfg, state, h, fn) ==
    RK45Solutions(cfg, state, h, RK45Stages(state, h, fn, <<>>))

RK45Attempt(cfg, state, step_size, fn) ==
    RK45WithStep(cfg, state, FClamp(step_size, cfg.min_step, cfg.max_step), fn)

\* The retry of a rejected activation is the same call again: the recursion
\* never returns.
RetryIsSameCall(cfg, a) ==
    FClamp(a.suggested_step, cfg.min_step, cfg.max_step) = a.h

\* AdaptiveRK45::step: the accepted activation of the recursion, or
\* returned = FALSE when the recursion does not end.
RECURSIVE AdaptiveRK45Step(_, _, _, _)
RECURSIVE AcceptOrRetry(_, _, _, _)
\* The retry continuing from the rejected estimate instead of the input.
AcceptOrRetry_FromEstimate(cfg, state, fn, a) ==
    IF a.accept
    THEN [returned |-> TRUE, state |-> a.y5, step_used |-> a.h,
          suggested_next_step |-> a.suggested_step]
    ELSE IF RetryIsSameCall(cfg, a)
    THEN [returned |-> FALSE, state |-> state, step_used |-> a.h,
          suggested_next_step |-> a.suggested_step]
    ELSE AdaptiveRK45Step(cfg, a.y5, a.suggested_step, fn)

AcceptOrRetry(cfg, state, fn, a) ==
    IF a.accept
    THEN [returned |-> TRUE, state |-> a.y5, step_used |-> a.h,
          suggested_next_step |-> a.suggested_step]
    ELSE IF RetryIsSameCall(cfg, a)
    THEN [returned |-> FALSE, state |-> state, step_used |-> a.h,
          suggested_next_step |-> a.suggested_step]
    ELSE AdaptiveRK45Step(cfg, state, a.suggested_step, fn)

AdaptiveRK45Step(cfg, state, step_size, fn) ==
    AcceptOrRetry(cfg, state, fn, RK45Attempt(cfg, state, step_size, fn))

(***************************************************************************)
(* Ray sessions.  A call of step() is modelled by its result: the value    *)
(* returned ("true", "false", or "noreturn" when the call never returns),  *)
(* the session it leaves and the rule of the transition that fired         *)
(* (1: step budget exhausted, 2: captured, 3: integrated).                 *)
(***************************************************************************)
\* The step budget max_steps set by both constructors (10000 in the
\* source), scaled down so that a session exhausts it.
MaxSteps == 3

\* (t, r, theta, phi) of a camera position at distance r.
Spherical(camera_pos, r) ==
    <<0, r, FAcos(FDiv(camera_pos[3], r)), FAtan2(camera_pos[2], camera_pos[1])>>

\* The conversion to spherical coordinates shared by both constructors.
SphericalPosition(camera_pos) ==
    Spherical(camera_pos,
              FSqrt(FAdd(FAdd(FMul(camera_pos[1], camera_pos[1]),
                              FMul(camera_pos[2], camera_pos[2])),
                         FMul(camera_pos[3], camera_pos[3]))))

InitialMomentum_normalized(ray_dir) ==
    <<Lit(1),
      FDiv(ray_dir[1], FSqrt(FAdd(FAdd(FMul(ray_dir[1], ray_dir[1]),
                                       FMul(ray_dir[2], ray_dir[2])),
                                  FMul(ray_dir[3], ray_dir[3])))),
      FDiv(ray_dir[2], FSqrt(FAdd(FAdd(FMul(ray_dir[1], ray_dir[1]),
                                       FMul(ray_dir[2], ray_dir[2])),
                                  FMul(ray_dir[3], ray_dir[3])))),
      FDiv(ray_dir[3], FSqrt(FAdd(FAdd(FMul(ray_dir[1], ray_dir[1]),
                                       FMul(ray_dir[2], ray_dir[2])),
                                  FMul(ray_dir[3], ray_dir[3]))))>>

InitialMomentum(ray_dir) == <<Lit(1), ray_dir[1], ray_dir[2], ray_dir[3]>>

\* LightRay::new
LightRayNew(camera_pos, ray_dir, mass) ==
    [kind |-> "LightRay",
     geodesic |-> GeodesicNew(SphericalPosition(camera_pos), InitialMomentum(ray_dir)),
     mass |-> mass,
     step_size |-> Q(1, 100),
     max_steps |-> MaxSteps,
     step_count |-> 0]

\* KerrLightRay::new
KerrLightRayNew(camera_pos, ray_dir, black_hole) ==
    LET position == SphericalPosition(camera_pos)
        momentum == InitialMomentum(ray_dir)
    IN  [kind |-> "KerrLightRay",
         geodesic |-> GeodesicNew(position, momentum),
         conserved |-> from_initial_conditions(position, momentum,
                                               black_hole.mass, black_hole.spin),
         black_hole |-> black_hole,
         integrator |-> AdaptiveRK45Default,
         step_size |-> Q(1, 10),
         max_steps |-> MaxSteps,
         step_count |-> 0]

\* The radial equation of motion of LightRay::compute_derivatives.
RadialForce(r, p, rs_over_r, two_r2, sin2) ==
    FAdd(FAdd(FMul(FMul(FDiv(FNeg(rs_over_r), two_r2), p[1]), p[1]),
              FMul(FMul(FDiv(FMul(rs_over_r, FSub(Lit(1), rs_over_r)), two_r2),
                        p[2]), p[2])),
         FMul(FMul(r, FSub(Lit(1), rs_over_r)),
              FAdd(FMul(p[3], p[3]), FMul(FMul(sin2, p[4]), p[4]))))

\* compute_derivatives with the polar equation of motion added:
\* dp_theta = -(2 / r) p_r p_theta.
compute_derivatives_WithPolarTerm(mass, state) ==
    GeodesicNew(state.momentum,
                IF FGt(state.position[2], FMul(Lit(2), mass))
                THEN <<0,
                       RadialForce(state.position[2], state.momentum,
                                   FDiv(FMul(Lit(2), mass), state.position[2]),
                                   FMul(FMul(Lit(2), state.position[2]), state.position[2]),
                                   FMul(FSin(state.position[3]), FSin(state.position[3]))),
                       FMul(FMul(FDiv(Lit(-2), state.position[2]), state.momentum[2]),
                            state.momentum[3]),
                       0>>
                ELSE <<0, 0, 0, 0>>)

\* LightRay::compute_derivatives
compute_derivatives(mass, state) ==
    GeodesicNew(state.momentum,
                IF FGt(state.position[2], FMul(Lit(2), mass))
                THEN <<0,
                       RadialForce(state.position[2], state.momentum,
                                   FDiv(FMul(Lit(2), mass), state.position[2]),
                                   FMul(FMul(Lit(2), state.position[2]), state.position[2]),
                                   FMul(FSin(state.position[3]), FSin(state.position[3]))),
                       0, 0>>
                ELSE <<0, 0, 0, 0>>)

\* LightRay::add_derivatives
add_derivatives(state, deriv, step) ==
    [position |-> [i \in 1..4 |-> FAdd(state.position[i], FMul(deriv.position[i], step))],
     momentum |-> [i \in 1..4 |-> FAdd(state.momentum[i], FMul(deriv.momentum[i], step))]]

\* k1 .. k4 of the RK4 step: k2 and k3 at half a step along the previous
\* k, k4 at a full step along k3.
RECURSIVE RK4Stages(_, _)
RK4Stages(ray, ks) ==
    IF Len(ks) = 4 THEN ks
    ELSE RK4Stages(ray,
             Append(ks, compute_derivatives(ray.mass,
                            IF ks = <<>> THEN ray.geodesic
                            ELSE add_derivatives(ray.geodesic, ks[Len(ks)],
                                                 IF Len(ks) = 3 THEN ray.step_size
                                                 ELSE FMul(ray.step_size, Q(1, 2))))))

\* The RK4 combination (k1 + 2 k2 + 2 k3 + k4) / 6 of one component.
Combine(a, b, c, d) ==
    FDiv(FAdd(FAdd(FAdd(a, FMul(Lit(2), b)), FMul(Lit(2), c)), d), Lit(6))

\* Combine the derivatives and apply them; count the step.
RK4Apply(ray, ks) ==
    [ray EXCEPT
       !.geodesic =
           [position |-> [i \in 1..4 |->
               FAdd(ray.geodesic.position[i],
                    FMul(Combine(ks[1].position[i], ks[2].position[i],
                                 ks[3].position[i], ks[4].position[i]),
                         ray.step_size))],
            momentum |-> [i \in 1..4 |->
               FAdd(ray.geodesic.momentum[i],
                    FMul(Combine(ks[1].momentum[i], ks[2].momentum[i],
                                 ks[3].momentum[i], ks[4].momentum[i]),
                         ray.step_size))]],
       !.step_count = ray.step_count + 1]

\* The integration of LightRay::step (the code after its two early returns).
LightRayIntegrate(ray) == RK4Apply(ray, RK4Stages(ray, <<>>))

\* LightRay::step without its step budget.
LightRayStep_NoBudget(ray) ==
    IF is_inside_event_horizon(ray.geodesic, ray.mass)
    THEN [ret |-> "false", rule |-> 2, ray |-> ray]
    ELSE [ret |-> "true", rule |-> 3, ray |-> LightRayIntegrate(ray)]

\* LightRay::step with the capture check ahead of the budget check.
LightRayStep_CaptureFirst(ray) ==
    IF is_inside_event_horizon(ray.geodesic, ray.mass)
    THEN [ret |-> "false", rule |-> 2, ray |-> ray]
    ELSE IF ray.step_count >= ray.max_steps
    THEN [ret |-> "false", rule |-> 1, ray |-> ray]
    ELSE [ret |-> "true", rule |-> 3, ray |-> LightRayIntegrate(ray)]

\* LightRay::step with the budget compared by > instead of >=.
LightRayStep_OffByOne(ray) ==
    IF ray.step_count > ray.max_steps
    THEN [ret |-> "false", rule |-> 1, ray |-> ray]
    ELSE IF is_inside_event_horizon(ray.geodesic, ray.mass)
    THEN [ret |-> "false", rule |-> 2, ray |-> ray]
    ELSE [ret |-> "true", rule |-> 3, ray |-> LightRayIntegrate(ray)]

\* LightRay::step looking for capture on the first call of a session only.
LightRayStep_CaptureOnEntry(ray) ==
    IF ray.step_count >= ray.max_steps
    THEN [ret |-> "false", rule |-> 1, ray |-> ray]
    ELSE IF ray.step_count = 0 /\ is_inside_event_horizon(ray.geodesic, ray.mass)
    THEN [ret |-> "false", rule |-> 2, ray |-> ray]
    ELSE [ret |-> "true", rule |-> 3, ray |-> LightRayIntegrate(ray)]

\* LightRay::step
LightRayStep(ray) ==
    IF ray.step_count >= ray.max_steps
    THEN [ret |-> "false", rule |-> 1, ray |-> ray]
    ELSE IF is_inside_event_horizon(ray.geodesic, ray.mass)
    THEN [ret |-> "false", rule |-> 2, ray |-> ray]
    ELSE [ret |-> "true", rule |-> 3, ray |-> LightRayIntegrate(ray)]

\* The closure |state| self.compute_kerr_derivatives(state) of a session.
KerrDerivativesFn(ray) ==
    [id |-> "kerr", conserved |-> ray.conserved, black_hole |-> ray.black_hole]

\* The result stored with the conserved quantities computed again from it.
KerrStore_RefreshesConserved(ray, res) ==
    IF res.returned
    THEN [ret |-> "true", rule |-> 3,
          ray |-> [ray EXCEPT !.geodesic = res.state,
                              !.conserved =
                                  from_initial_conditions(res.state.position,
                                                          res.state.momentum,
                                                          ray.black_hole.mass,
                                                          ray.black_hole.spin),
                              !.step_size = res.suggested_next_step,
                              !.step_count = ray.step_count + 1]]
    ELSE [ret |-> "noreturn", rule |-> 3, ray |-> ray]

\* The end of KerrLightRay::step: the integrator's result stored.
KerrStore(ray, res) ==
    IF res.returned
    THEN [ret |-> "true", rule |-> 3,
          ray |-> [ray EXCEPT !.geodesic = res.state,
                              !.step_size = res.suggested_next_step,
                              !.step_count = ray.step_count + 1]]
    ELSE [ret |-> "noreturn", rule |-> 3, ray |-> ray]

\* KerrLightRay::step counting a captured call as a step.
KerrLightRayStep_CountsCapture(ray) ==
    IF ray.step_count >= ray.max_steps
    THEN [ret |-> "false", rule |-> 1, ray |-> ray]
    ELSE IF is_inside_horizon(radius(ray.geodesic), ray.black_hole)
    THEN [ret |-> "false", rule |-> 2,
          ray |-> [ray EXCEPT !.step_count = ray.step_count + 1]]
    ELSE KerrStore(ray, AdaptiveRK45Step(ray.integrator, ray.geodesic, ray.step_size,
                                         KerrDerivativesFn(ray)))

\* KerrLightRay::step
KerrLightRayStep(ray) ==
    IF ray.step_count >= ray.max_steps
    THEN [ret |-> "false", rule |-> 1, ray |-> ray]
    ELSE IF is_inside_horizon(radius(ray.geodesic), ray.black_hole)
    THEN [ret |-> "false", rule |-> 2, ray |-> ray]
    ELSE KerrStore(ray, AdaptiveRK45Step(ray.integrator, ray.geodesic, ray.step_size,
                                         KerrDerivativesFn(ray)))

\* LightRay::has_escaped and KerrLightRay::has_escaped
has_escaped(ray) ==
    IF ray.kind = "LightRay"
    THEN FGt(radius(ray.geodesic), FMul(Lit(100), ray.mass))
    ELSE FGt(radius(ray.geodesic), FMul(Lit(100), ray.black_hole.mass))

\* The capture radius of a session: 2M, or the outer horizon.
CaptureRadius(ray) ==
    IF ray.kind = "LightRay" THEN FMul(Lit(2), ray.mass)
    ELSE outer_horizon(ray.black_hole)

StepOf(ray) == IF ray.kind = "LightRay" THEN LightRayStep(ray) ELSE KerrLightRayStep(ray)

(***************************************************************************)
(* The state: the ray sessions, what the last call on each session did,    *)
(* one call of AdaptiveRK45::step followed activation by activation, one   *)
(* evaluation of a function of the library, and the camera controller of   *)
(* the renderer with its camera.                                           *)
(***************************************************************************)
VARIABLES ray, last, rk, eval, cam

vars == <<ray, last, rk, eval, cam>>

Sessions == {1, 2}

NoRay == [kind |-> "none"]

NoCall ==
    [op |-> "none", args |-> <<>>, pre |-> NoRay, ret |-> "none", rule |-> 0,
     trues |-> 0, falses |-> 0]

RkIdle == [pc |-> "idle"]

\* No function of the library is being evaluated.
EvalIdle == [pc |-> "idle"]

\* No camera controller has been built.
CamIdle == [pc |-> "idle"]

\* How many stop signals a caller takes from one session.
MaxStops == 2

\* The callers' inputs.
CameraPositions ==
    { <<0, 0, Lit(10)>>, <<0, 0, Lit(200)>>, <<Lit(3), Lit(4), Lit(2)>>,
      <<Q(202, 100), 0, 0>>, <<Q(203, 100), 0, 0>>, <<Lit(2), 0, 0>>, <<Lit(1), 0, 0>>,
      <<Q(105, 10), 0, 0>>, <<0, 0, 0>> }

RayDirections ==
    { <<0, 0, Lit(-1)>>, <<0, 0, Lit(1)>>, <<Lit(-1), 0, 0>>, <<Lit(-1), Q(1, 5), Q(1, 2)>>,
      <<0, Lit(-1), 0>> }

\* The directions handed to KerrLightRay::new, which stores them as given:
\* a component near the top of the format among them.
KerrRayDirections == RayDirections \cup { <<0, 0, Lit(980000)>> }

Masses == { Lit(1), Q(1, 10) }

Spins == { 0, Q(1, 2) }

\* The masses handed to KerrBlackHole::new, which does not validate them.
KerrMasses == Masses \cup { 0, Lit(-1) }

\* A constructor that panicked leaves its caller unwinding.
Constructible(s) == ray[s].kind = "none" /\ last[s].ret # "panic"

Init ==
    /\ ray = [s \in Sessions |-> NoRay]
    /\ last = [s \in Sessions |-> NoCall]
    /\ rk = RkIdle
    /\ eval = EvalIdle
    /\ cam = CamIdle

NewLightRayFrom(s, cameras, directions, masses) ==
    /\ Constructible(s)
    /\ \E camera_pos \in cameras, ray_dir \in directions, mass \in masses :
          /\ ray' = [ray EXCEPT ![s] = LightRayNew(camera_pos, ray_dir, mass)]
          /\ last' = [last EXCEPT ![s] =
                        [op |-> "new", args |-> <<camera_pos, ray_dir, mass, 0>>,
                         pre |-> NoRay, ret |-> "none", rule |-> 0, trues |-> 0,
                         falses |-> 0]]
    /\ UNCHANGED <<rk, eval, cam>>

NewKerrLightRayFrom(s, cameras, directions, masses, spins) ==
    /\ Constructible(s)
    /\ \E camera_pos \in cameras, ray_dir \in directions,
          mass \in masses, spin \in spins :
          /\ ~KerrBlackHoleNewPanics(mass, spin)
          /\ ray' = [ray EXCEPT ![s] =
                       KerrLightRayNew(camera_pos, ray_dir, KerrBlackHoleNew(mass, spin))]
          /\ last' = [last EXCEPT ![s] =
                        [op |-> "new", args |-> <<camera_pos, ray_dir, mass, spin>>,
                         pre |-> NoRay, ret |-> "none", rule |-> 0, trues |-> 0,
                         falses |-> 0]]
    /\ UNCHANGED <<rk, eval, cam>>

NewLightRay(s) == NewLightRayFrom(s, CameraPositions, RayDirections, Masses)

NewKerrLightRay(s) ==
    NewKerrLightRayFrom(s, CameraPositions, KerrRayDirections, KerrMasses, Spins)

\* KerrBlackHole::new called for the black hole of a Kerr session panics.
NewKerrBlackHolePanics(s) ==
    /\ Constructible(s)
    /\ \E camera_pos \in CameraPositions, ray_dir \in KerrRayDirections,
          mass \in KerrMasses, spin \in Spins :
          /\ KerrBlackHoleNewPanics(mass, spin)
          /\ last' = [last EXCEPT ![s] =
                        [op |-> "KerrBlackHole::new",
                         args |-> <<camera_pos, ray_dir, mass, spin>>,
                         pre |-> NoRay, ret |-> "panic", rule |-> 0, trues |-> 0,
                         falses |-> 0]]
    /\ UNCHANGED <<ray, rk, eval, cam>>

\* A call that never returns leaves its session with the caller stuck in it;
\* a caller goes on calling step() up to MaxStops times after a stop.
Callable(s) ==
    /\ ray[s].kind # "none"
    /\ last[s].ret # "noreturn"
    /\ last[s].falses < MaxStops

\* Calls that write the step size of every Kerr session, as a step size kept
\* in one place for all sessions would.
Called_SharedStepSize(s, res) ==
    /\ ray' = [t \in Sessions |->
                 IF t = s THEN res.ray
                 ELSE IF ray[t].kind = "KerrLightRay" /\ res.ray.kind = "KerrLightRay"
                 THEN [ray[t] EXCEPT !.step_size = res.ray.step_size]
                 ELSE ray[t]]
    /\ last' = [last EXCEPT ![s] =
                  [op |-> "step", args |-> last[s].args, pre |-> ray[s],
                   ret |-> res.ret, rule |-> res.rule,
                   trues |-> last[s].trues + (IF res.ret = "true" THEN 1 ELSE 0),
                   falses |-> last[s].falses + (IF res.ret = "false" THEN 1 ELSE 0)]]
    /\ UNCHANGED <<rk, eval, cam>>

Called(s, res) ==
    /\ ray' = [ray EXCEPT ![s] = res.ray]
    /\ last' = [last EXCEPT ![s] =
                  [op |-> "step", args |-> last[s].args, pre |-> ray[s],
                   ret |-> res.ret, rule |-> res.rule,
                   trues |-> last[s].trues + (IF res.ret = "true" THEN 1 ELSE 0),
                   falses |-> last[s].falses + (IF res.ret = "false" THEN 1 ELSE 0)]]
    /\ UNCHANGED <<rk, eval, cam>>

StepLightRay(s) ==
    /\ Callable(s)
    /\ ray[s].kind = "LightRay"
    /\ Called(s, LightRayStep(ray[s]))

StepKerrLightRay(s) ==
    /\ Callable(s)
    /\ ray[s].kind = "KerrLightRay"
    /\ Called(s, KerrLightRayStep(ray[s]))

\* One session, owned by its caller.
Next ==
    \/ NewLightRay(1)
    \/ NewKerrLightRay(1)
    \/ NewKerrBlackHolePanics(1)
    \/ StepLightRay(1)
    \/ StepKerrLightRay(1)

Spec == Init /\ [][Next]_vars

(***************************************************************************)
(* Several sessions, each owned by one worker, advanced in any             *)
(* interleaving.                                                           *)
(***************************************************************************)
ParCameraPositions == { <<Lit(3), Lit(4), Lit(2)>>, <<Q(203, 100), 0, 0>> }

ParRayDirections == { <<Lit(-1), 0, 0>> }

ParMasses == { Lit(1) }

ParSpins == { Q(1, 2) }

NewLightRayPar(s) ==
    NewLightRayFrom(s, ParCameraPositions, ParRayDirections, ParMasses)

NewKerrLightRayPar(s) ==
    NewKerrLightRayFrom(s, ParCameraPositions, ParRayDirections, ParMasses, ParSpins)

NextPar ==
    \E s \in Sessions :
        \/ NewLightRayPar(s)
        \/ NewKerrLightRayPar(s)
        \/ StepLightRay(s)
        \/ StepKerrLightRay(s)

SpecPar == Init /\ [][NextPar]_vars

(***************************************************************************)
(* One call of AdaptiveRK45::step on its own, one activation of the        *)
(* recursion per step: rk.step_size is the step size the pending           *)
(* activation was called with, rk.rejected the step the previous           *)
(* activation rejected, rk.finite whether every input and every            *)
(* derivative value seen so far is finite.                                 *)
(***************************************************************************)
FiniteGeodesic(g) ==
    \A i \in 1..4 : IsFin(g.position[i]) /\ IsFin(g.momentum[i])

RkConfigs ==
    { AdaptiveRK45Default,
      [abs_tolerance |-> 1, rel_tolerance |-> 1, min_step |-> Q(1, 10),
       max_step |-> Lit(1), safety_factor |-> Q(9, 10)] }

RkStates ==
    { GeodesicNew(<<0, Lit(1), 0, 0>>, <<0, 0, Lit(1), 0>>),
      GeodesicNew(<<0, Lit(1), 0, 0>>, <<0, 0, 0, 0>>),
      GeodesicNew(<<0, 0, 0, 0>>, <<0, 0, 0, 0>>),
      GeodesicNew(<<0, Lit(1), 0, NaN>>, <<0, 0, 0, 0>>),
      GeodesicNew(<<0, Lit(100000), 0, 0>>, <<0, 0, 0, 0>>) }

RkStepSizes == { Q(1, 10), Lit(1), 0, Lit(-1), Lit(5), Q(1, 100), NaN }

RkFunctions ==
    { [id |-> "zero"], [id |-> "oscillator"], [id |-> "stiff", rate |-> Lit(100)],
      [id |-> "stiff", rate |-> Lit(1000)], [id |-> "constant", rate |-> Lit(770000)] }

InitRK ==
    /\ ray = [s \in Sessions |-> NoRay]
    /\ last = [s \in Sessions |-> NoCall]
    /\ eval = EvalIdle
    /\ cam = CamIdle
    /\ \E cfg \in RkConfigs, state \in RkStates, step_size \in RkStepSizes,
          fn \in RkFunctions :
          rk = [pc |-> "call", cfg |-> cfg, state |-> state, fn |-> fn,
                step_size |-> step_size, requested |-> step_size,
                retried |-> FALSE, rejected |-> 0, retries |-> 0,
                finite |-> FiniteGeodesic(state) /\ IsFin(step_size),
                result |-> <<>>]

RkActivation == RK45Attempt(rk.cfg, rk.state, rk.step_size, rk.fn)

RkSeen(a) == rk.finite /\ \A i \in 1..6 : FiniteGeodesic(a.ks[i])

\* error <= tolerance: the activation returns.
RKAccept ==
    /\ rk.pc = "call"
    /\ RkActivation.accept
    /\ rk' = [rk EXCEPT !.pc = "returned",
                        !.finite = RkSeen(RkActivation),
                        !.result = <<RkActivation.y5, RkActivation.h,
                                     RkActivation.suggested_step>>]
    /\ UNCHANGED <<ray, last, eval, cam>>

\* The activation rejects its step and calls step() with the suggestion.
RKRetry ==
    /\ rk.pc = "call"
    /\ ~RkActivation.accept
    /\ ~RetryIsSameCall(rk.cfg, RkActivation)
    /\ rk' = [rk EXCEPT !.step_size = RkActivation.suggested_step,
                        !.retried = TRUE,
                        !.rejected = RkActivation.h,
                        !.retries = rk.retries + 1,
                        !.finite = RkSeen(RkActivation)]
    /\ UNCHANGED <<ray, last, eval, cam>>

\* The activation rejects its step and the call it makes is the call it
\* is: the recursion goes on until the stack is exhausted.
RKRecurseForever ==
    /\ rk.pc = "call"
    /\ ~RkActivation.accept
    /\ RetryIsSameCall(rk.cfg, RkActivation)
    /\ rk' = [rk EXCEPT !.pc = "noreturn",
                        !.step_size = RkActivation.suggested_step,
                        !.retried = TRUE,
                        !.rejected = RkActivation.h,
                        !.finite = RkSeen(RkActivation)]
    /\ UNCHANGED <<ray, last, eval, cam>>

NextRK == RKAccept \/ RKRetry \/ RKRecurseForever

SpecRK == InitRK /\ [][NextRK]_vars

(***************************************************************************)
(* generate_sphere of the renderer (geometry.rs).  A Vertex is its         *)
(* position and its texture coordinates; an index is a u16.                *)
(***************************************************************************)
\* `as u16`: the low 16 bits.
AsU16(n) == n % 65536

\* The vertex pushed for (lat, lon).
SphereVertex(sphere_radius, lat, lon, latitude_segments, longitude_segments) ==
    LET theta == FDiv(FMul(Lit(lat), Pi), Lit(latitude_segments))
        phi == FDiv(FMul(FMul(Lit(lon), Lit(2)), Pi), Lit(longitude_segments))
    IN  [position |-> <<FMul(FMul(sphere_radius, FSin(theta)), FCos(phi)),
                        FMul(sphere_radius, FCos(theta)),
                        FMul(FMul(sphere_radius, FSin(theta)), FSin(phi))>>,
         tex_coords |-> <<FDiv(Lit(lon), Lit(longitude_segments)),
                          FDiv(Lit(lat), Lit(latitude_segments))>>]

\* The inner vertex loop stopping one short: for lon in 0..longitude_segments.
VertexRow_ExclusiveRange(sphere_radius, lat, latitude_segments, longitude_segments) ==
    [j \in 1..longitude_segments |->
        SphereVertex(sphere_radius, lat, j - 1, latitude_segments, longitude_segments)]

\* The inner vertex loop, for lon in 0..=longitude_segments: the vertices
\* it pushes, in order.
VertexRow(sphere_radius, lat, latitude_segments, longitude_segments) ==
    [j \in 1..(longitude_segments + 1) |->
        SphereVertex(sphere_radius, lat, j - 1, latitude_segments, longitude_segments)]

\* The outer vertex loop from lat on, for lat in 0..=latitude_segments.
RECURSIVE SphereVertices(_, _, _, _)
SphereVertices(sphere_radius, lat, latitude_segments, longitude_segments) ==
    IF lat > latitude_segments THEN <<>>
    ELSE VertexRow(sphere_radius, lat, latitude_segments, longitude_segments)
             \o SphereVertices(sphere_radius, lat + 1, latitude_segments, longitude_segments)

\* The indices pushed for the quad (lat, lon).
QuadIndices(lat, lon, latitude_segments, longitude_segments) ==
    LET current_row == lat * (longitude_segments + 1)
        next_row == (lat + 1) * (longitude_segments + 1)
        current == AsU16(current_row + lon)
        current_next == AsU16(current_row + lon + 1)
        next == AsU16(next_row + lon)
        next_next == AsU16(next_row + lon + 1)
    IN  IF lat = 0 THEN <<current, next, next_next>>
        ELSE IF lat = latitude_segments - 1 THEN <<current, current_next, next>>
        ELSE <<current, next, current_next, current_next, next, next_next>>

\* The iterations first..last of the inner index loop, in order.
RECURSIVE QuadRun(_, _, _, _, _)
QuadRun(lat, first, last_lon, latitude_segments, longitude_segments) ==
    IF first > last_lon THEN <<>>
    ELSE IF first = last_lon
    THEN QuadIndices(lat, first, latitude_segments, longitude_segments)
    ELSE QuadRun(lat, first, (first + last_lon) \div 2,
                 latitude_segments, longitude_segments)
             \o QuadRun(lat, (first + last_lon) \div 2 + 1, last_lon,
                        latitude_segments, longitude_segments)

\* The outer index loop from lat on, for lat in 0..latitude_segments, with
\* the inner loop for lon in 0..longitude_segments.
RECURSIVE SphereIndices(_, _, _)
SphereIndices(lat, latitude_segments, longitude_segments) ==
    IF lat >= latitude_segments THEN <<>>
    ELSE QuadRun(lat, 0, longitude_segments - 1, latitude_segments, longitude_segments)
             \o SphereIndices(lat + 1, latitude_segments, longitude_segments)

generate_sphere(sphere_radius, latitude_segments, longitude_segments) ==
    [vertices |-> SphereVertices(sphere_radius, 0, latitude_segments, longitude_segments),
     indices |-> SphereIndices(0, latitude_segments, longitude_segments)]

(***************************************************************************)
(* One evaluation of a function of the library on its own: eval is the     *)
(* call with its arguments, then the call with what it returned.           *)
(***************************************************************************)
FnMasses == { Lit(1), Q(1, 10), Lit(2), Q(1, 100), Lit(2000), 0, Lit(-1) }

FnSpins == { 0, Q(1, 2), Q(3, 10), Lit(1), Lit(5), Q(-1, 2) }

FnRadii == { Q(2001, 1000), Q(5, 2), Lit(3), Q(33, 10), Lit(5), Lit(10) }

FnThetas == { 0, Q(1, 2), Q(11, 10), HalfPi, Lit(2), Pi }

MetricCalls ==
    { [pc |-> "call", fn |-> "metric_components", args |-> <<r, theta, mass, spin>>] :
        r \in FnRadii, theta \in FnThetas, mass \in { Lit(1), Q(1, 10), Lit(2) },
        spin \in { 0, Q(1, 2), Lit(1) } }

RadiiCalls ==
    { [pc |-> "call", fn |-> "radii", args |-> <<mass, spin, theta>>] :
        mass \in FnMasses, spin \in FnSpins, theta \in FnThetas }

\* Momenta (p_t, p_r, p_theta, p_phi), the one of test_conserved_quantities
\* first.
FnMomenta ==
    { <<Lit(-1), Q(1, 10), 0, Q(1, 5)>>, <<Lit(-1), 0, 0, 0>>, <<Lit(1), Lit(-1), 0, 0>>,
      <<Q(-1, 2), 0, 0, 0>>, <<Q(1, 2), 0, Q(1, 10), Q(1, 5)>>, <<Lit(-2), 0, Q(3, 10), Lit(-1)>> }

ConservedCalls ==
    { [pc |-> "call", fn |-> "from_initial_conditions",
       args |-> << <<0, Lit(10), theta, 0>>, momentum, Lit(1), spin >>] :
        theta \in FnThetas, momentum \in FnMomenta, spin \in { 0, Q(3, 10), Q(1, 2) } }

\* Segment counts: small spheres and those of the tests, and two whose
\* vertex count is 65536 and more.
SphereSegments ==
    { <<1, 1>>, <<1, 2>>, <<2, 1>>, <<2, 2>>, <<3, 3>>, <<4, 8>>, <<8, 16>> }

LargeSphereSegments == { <<1, 32767>>, <<1, 32768>> }

SphereCalls ==
    { [pc |-> "call", fn |-> "generate_sphere", args |-> <<sphere_radius, seg[1], seg[2]>>] :
        sphere_radius \in { Lit(1), Lit(2) }, seg \in SphereSegments }
    \cup { [pc |-> "call", fn |-> "generate_sphere", args |-> <<Lit(1), seg[1], seg[2]>>] :
             seg \in LargeSphereSegments }

InitFn ==
    /\ ray = [s \in Sessions |-> NoRay]
    /\ last = [s \in Sessions |-> NoCall]
    /\ rk = RkIdle
    /\ cam = CamIdle
    /\ eval \in MetricCalls \cup RadiiCalls \cup ConservedCalls \cup SphereCalls

Returned(out) ==
    /\ eval' = [pc |-> "returned", fn |-> eval.fn, args |-> eval.args, out |-> out]
    /\ UNCHANGED <<ray, last, rk, cam>>

\* kerr_schild::metric_components(r, theta, &KerrBlackHole::new(mass, spin))
EvalMetricComponents ==
    /\ eval.pc = "call"
    /\ eval.fn = "metric_components"
    /\ ~KerrBlackHoleNewPanics(eval.args[3], eval.args[4])
    /\ Returned(metric_components(eval.args[1], eval.args[2],
                                  KerrBlackHoleNew(eval.args[3], eval.args[4])))

\* The three radii of KerrBlackHole::new(mass, spin).
EvalRadii ==
    /\ eval.pc = "call"
    /\ eval.fn = "radii"
    /\ ~KerrBlackHoleNewPanics(eval.args[1], eval.args[2])
    /\ Returned([outer_horizon |-> outer_horizon(KerrBlackHoleNew(eval.args[1], eval.args[2])),
                 inner_horizon |-> inner_horizon(KerrBlackHoleNew(eval.args[1], eval.args[2])),
                 ergosphere_radius |->
                     ergosphere_radius(KerrBlackHoleNew(eval.args[1], eval.args[2]),
                                       eval.args[3])])

\* KerrBlackHole::new panics and the evaluation unwinds.
EvalNewPanics ==
    /\ eval.pc = "call"
    /\ eval.fn = "radii"
    /\ KerrBlackHoleNewPanics(eval.args[1], eval.args[2])
    /\ eval' = [pc |-> "panic", fn |-> eval.fn, args |-> eval.args]
    /\ UNCHANGED <<ray, last, rk, cam>>

\* ConservedQuantities::from_initial_conditions(position, momentum, mass, spin)
EvalFromInitialConditions ==
    /\ eval.pc = "call"
    /\ eval.fn = "from_initial_conditions"
    /\ Returned(from_initial_conditions(eval.args[1], eval.args[2], eval.args[3],
                                        eval.args[4]))

\* generate_sphere(radius, latitude_segments, longitude_segments)
EvalGenerateSphere ==
    /\ eval.pc = "call"
    /\ eval.fn = "generate_sphere"
    /\ Returned(generate_sphere(eval.args[1], eval.args[2], eval.args[3]))

NextFn ==
    \/ EvalMetricComponents
    \/ EvalRadii
    \/ EvalNewPanics
    \/ EvalFromInitialConditions
    \/ EvalGenerateSphere

SpecFn == InitFn /\ [][NextFn]_vars

(***************************************************************************)
(* The contract of step(), has_escaped() and the constructors.             *)
(***************************************************************************)
Stepped(s) == last[s].op = "step"

Norm3(v) ==
    FSqrt(FAdd(FAdd(FMul(v[1], v[1]), FMul(v[2], v[2])), FMul(v[3], v[3])))

\* C1: a step() call made with step_count >= max_steps returns false and
\* leaves every field of the session as it was, whatever the radius.
C1_BudgetStop ==
    \A s \in Sessions :
        (Stepped(s) /\ last[s].pre.step_count >= last[s].pre.max_steps)
            => (last[s].ret = "false" /\ ray[s] = last[s].pre)

\* The budget stopped a ray that is outside its capture radius.
C1_Witness ==
    \E s \in Sessions :
        /\ Stepped(s)
        /\ last[s].pre.step_count >= last[s].pre.max_steps
        /\ FGt(radius(last[s].pre.geodesic), CaptureRadius(last[s].pre))
        /\ last[s].ret = "false"

\* C2: a step() call made with step_count < max_steps and radius <= capture
\* radius (equality included) returns false and leaves the session as it
\* was: nothing is integrated, step_count is not incremented.
C2_CaptureStop ==
    \A s \in Sessions :
        (/\ Stepped(s)
         /\ last[s].pre.step_count < last[s].pre.max_steps
         /\ FLe(radius(last[s].pre.geodesic), CaptureRadius(last[s].pre)))
            => (last[s].ret = "false" /\ ray[s] = last[s].pre)

\* A ray exactly on its capture radius was stopped.
C2_Witness ==
    \E s \in Sessions :
        /\ Stepped(s)
        /\ last[s].pre.step_count < last[s].pre.max_steps
        /\ radius(last[s].pre.geodesic) = CaptureRadius(last[s].pre)
        /\ last[s].ret = "false"

\* C3: a step() call made with step_count < max_steps and radius > capture
\* radius returns true and has incremented step_count by exactly 1.
C3_IntegratingStep ==
    \A s \in Sessions :
        (/\ Stepped(s)
         /\ last[s].pre.step_count < last[s].pre.max_steps
         /\ FGt(radius(last[s].pre.geodesic), CaptureRadius(last[s].pre)))
            => (/\ last[s].ret = "true"
                /\ ray[s].step_count = last[s].pre.step_count + 1)

\* What step() hands back when it stops a fresh Schwarzschild ray that
\* starts inside its capture radius: the outputs of Captured stops.
CapturedStopOutputs ==
    { LightRayStep(LightRayNew(c, d, m)).ret :
        <<c, d, m>> \in { x \in CameraPositions \X RayDirections \X Masses :
                            LightRayStep(LightRayNew(x[1], x[2], x[3])).rule = 2 } }

\* C4 as stated: the output of a stopping call tells a MaxStepsReached stop
\* from a Captured stop, so the output of a MaxStepsReached stop is not the
\* output of any Captured stop.
C4_OutputClassifies ==
    \A s \in Sessions :
        (Stepped(s) /\ last[s].ret = "false" /\ last[s].rule = 1)
            => last[s].ret \notin CapturedStopOutputs

\* C4 as amended: a stopping call returns the bare value false whichever
\* rule stopped it; the classification is read from the session it leaves:
\* the stop is the MaxStepsReached one exactly when step_count >= max_steps
\* (also when the ray is inside the capture radius), and otherwise the
\* Captured one, with radius <= capture radius.
C4_ClassifiedBySession ==
    \A s \in Sessions :
        (Stepped(s) /\ last[s].ret = "false")
            => /\ last[s].rule \in {1, 2}
               /\ last[s].rule = 1 <=> ray[s].step_count >= ray[s].max_steps
               /\ last[s].rule = 2 =>
                      FLe(radius(ray[s].geodesic), CaptureRadius(ray[s]))

\* A stop with both conditions true: budget used up, ray inside 2M.
C4_Witness ==
    \E s \in Sessions :
        /\ Stepped(s)
        /\ last[s].ret = "false"
        /\ ray[s].step_count >= ray[s].max_steps
        /\ FLe(radius(ray[s].geodesic), CaptureRadius(ray[s]))
        /\ last[s].rule = 1

\* C5: once a step() call on a session has returned false, every later
\* call on it returns false too and the session never changes again.
C5_StopsAreAbsorbing ==
    [][\A s \in Sessions :
          last[s].ret = "false" => (last'[s].ret = "false" /\ ray'[s] = ray[s])]_vars

\* A session that had taken steps was stopped by capture and called again.
C5_Witness ==
    \E s \in Sessions :
        /\ last[s].falses = 2
        /\ last[s].rule = 2
        /\ ray[s].step_count > 0

\* C6: step_count never exceeds max_steps, every true return is one counted
\* step (so at most max_steps calls return true), a session whose budget is
\* used up is stopped by its next call, and a LightRay call always returns.
C6_StepBudget ==
    \A s \in Sessions :
        ray[s].kind # "none"
            => /\ ray[s].step_count <= ray[s].max_steps
               /\ last[s].trues = ray[s].step_count
               /\ last[s].trues <= ray[s].max_steps
               /\ ray[s].step_count = ray[s].max_steps
                      => (StepOf(ray[s]).ret = "false" /\ StepOf(ray[s]).ray = ray[s])
               /\ ray[s].kind = "LightRay" => last[s].ret # "noreturn"

\* A driver loop ran its session to the budget and was stopped there.
C6_Witness ==
    \E s \in Sessions :
        /\ Stepped(s)
        /\ last[s].trues = ray[s].max_steps
        /\ last[s].ret = "false"
        /\ last[s].rule = 1

\* C7: has_escaped() is radius > 100 * mass, and a step() call made on an
\* escaped ray with step_count < max_steps integrates and returns true.
C7_EscapeNeverStops ==
    \A s \in Sessions :
        /\ ray[s].kind # "none"
               => (has_escaped(ray[s]) <=>
                       FGt(radius(ray[s].geodesic),
                           FMul(Lit(100), IF ray[s].kind = "LightRay" THEN ray[s].mass
                                          ELSE ray[s].black_hole.mass)))
        /\ (/\ Stepped(s)
            /\ has_escaped(last[s].pre)
            /\ last[s].pre.step_count < last[s].pre.max_steps)
               => (/\ last[s].ret = "true"
                   /\ ray[s].step_count = last[s].pre.step_count + 1)

\* C8: a constructed session has step_count 0, position
\* (0, |origin|, acos(z / r), atan2(y, x)) and momentum (1, dir) with the
\* direction as given; radius() is |origin| and has_escaped() holds iff
\* |origin| > 100 * mass.
C8_Construction ==
    \A s \in Sessions :
        last[s].op = "new"
            => /\ ray[s].step_count = 0
               /\ ray[s].geodesic.position =
                      <<0, Norm3(last[s].args[1]),
                        FAcos(FDiv(last[s].args[1][3], Norm3(last[s].args[1]))),
                        FAtan2(last[s].args[1][2], last[s].args[1][1])>>
               /\ ray[s].geodesic.momentum =
                      <<Lit(1), last[s].args[2][1], last[s].args[2][2], last[s].args[2][3]>>
               /\ radius(ray[s].geodesic) = Norm3(last[s].args[1])
               /\ has_escaped(ray[s]) <=>
                      FGt(Norm3(last[s].args[1]), FMul(Lit(100), last[s].args[3]))

\* A session constructed beyond 100 M along a direction that is not a unit
\* vector.
C8_Witness ==
    \E s \in Sessions :
        /\ last[s].op = "new"
        /\ has_escaped(ray[s])
        /\ last[s].args[2] = <<Lit(-1), Q(1, 5), Q(1, 2)>>
        /\ ray[s].geodesic.momentum[3] = Q(1, 5)

\* C9: AdaptiveRK45::step returns whenever its input state, the requested
\* step size and every derivative value are finite.
C9_FiniteCallsReturn == rk.pc = "noreturn" => ~rk.finite

\* C10: a retry is issued with a step size strictly smaller than the step
\* that was just rejected, also when that step was min_step (stated for the
\* calls whose values are all finite, where both step sizes are numbers).
C10_RetryShrinks ==
    (rk.pc # "idle" /\ rk.retried /\ rk.finite) => FLt(rk.step_size, rk.rejected)

(***************************************************************************)
(* The contract of AdaptiveRK45::step.                                     *)
(***************************************************************************)
\* The components in which the two estimates of an activation differ by NaN.
NaNDifferences(a) ==
    { i \in 1..4 : IsNaN(FSub(a.y5.position[i], a.y4.position[i])) }
        \cup { 4 + i : i \in { j \in 1..4 : IsNaN(FSub(a.y5.momentum[j], a.y4.momentum[j])) } }

\* C11: a step whose 4th-order and 5th-order estimates differ by NaN in
\* some component is never accepted: no call returns from such a step
\* (stated for the calls made with a finite state and a finite step size,
\* where the NaN arises inside the step).
C11_NaNErrorNeverAccepted ==
    (rk.pc = "returned" /\ FiniteGeodesic(rk.state) /\ IsFin(rk.requested))
        => NaNDifferences(RkActivation) = {}

\* x lies in [min_step, max_step] of the configuration.
InStepRange(cfg, x) == FLe(cfg.min_step, x) /\ FLe(x, cfg.max_step)

\* C12: whatever step size was requested, a returned result has step_used
\* and suggested_next_step in [min_step, max_step], so the suggestion is
\* positive when min_step is (stated for the calls made with a finite state
\* and a finite step size).
C12_StepsInRange ==
    (rk.pc = "returned" /\ FiniteGeodesic(rk.state) /\ IsFin(rk.requested))
        => /\ InStepRange(rk.cfg, rk.result[2])
           /\ InStepRange(rk.cfg, rk.result[3])
           /\ FGt(rk.cfg.min_step, 0) => FGt(rk.result[3], 0)

\* The 4th-order and the 5th-order estimate of a step h from state, written
\* out term by term.
FourthOrder(state, h, ks) ==
    add_k_to_state(
        add_k_to_state(
            add_k_to_state(
                add_k_to_state(state, ks[1], FMul(h, Q(25, 216))),
                ks[3], FMul(h, Q(1408, 2565))),
            ks[4], FMul(h, Q(2197, 4104))),
        ks[5], FMul(h, Q(-1, 5)))

FifthOrder(state, h, ks) ==
    add_k_to_state(
        add_k_to_state(
            add_k_to_state(
                add_k_to_state(
                    add_k_to_state(state, ks[1], FMul(h, Q(16, 135))),
                    ks[3], FMul(h, Q(6656, 12825))),
                ks[4], FMul(h, Q(28561, 56430))),
            ks[5], FMul(h, Q(-9, 50))),
        ks[6], FMul(h, Q(2, 55)))

\* The absolute component differences of two states.
AbsDifferences(y4, y5) ==
    { FAbs(FSub(y5.position[i], y4.position[i])) : i \in 1..4 }
        \cup { FAbs(FSub(y5.momentum[i], y4.momentum[i])) : i \in 1..4 }

\* The largest of them does not exceed the tolerance
\* abs_tolerance + rel_tolerance * |state|, the 2-norm taken over all eight
\* components of state.
WithinTolerance(cfg, state, differences) ==
    \A d \in differences :
        FLe(d, FAdd(cfg.abs_tolerance,
                    FMul(cfg.rel_tolerance,
                         FSqrt(FAdd(FAdd(FAdd(FAdd(FAdd(FAdd(FAdd(
                             FMul(state.position[1], state.position[1]),
                             FMul(state.momentum[1], state.momentum[1])),
                             FMul(state.position[2], state.position[2])),
                             FMul(state.momentum[2], state.momentum[2])),
                             FMul(state.position[3], state.position[3])),
                             FMul(state.momentum[3], state.momentum[3])),
                             FMul(state.position[4], state.position[4])),
                             FMul(state.momentum[4], state.momentum[4]))))))

\* The verdict on a step h from state: "accept", "reject", or "nan" when a
\* component difference is NaN and the largest difference is no number.
Verdict(cfg, state, h, ks) ==
    IF NaN \in AbsDifferences(FourthOrder(state, h, ks), FifthOrder(state, h, ks))
    THEN "nan"
    ELSE IF WithinTolerance(cfg, state,
                AbsDifferences(FourthOrder(state, h, ks), FifthOrder(state, h, ks)))
    THEN "accept"
    ELSE "reject"

\* A returned result is the 5th-order estimate from the input state with
\* the step it names, and that step was within tolerance.
ReturnsFifthOrder(cfg, state, fn, res) ==
    res.returned =>
        /\ res.state = FifthOrder(state, res.step_used,
                                  RK45Stages(state, res.step_used, fn, <<>>))
        /\ Verdict(cfg, state, res.step_used,
                   RK45Stages(state, res.step_used, fn, <<>>)) \in {"accept", "nan"}

C14_ConstructionNeverFails ==
    \A s \in Sessions :
        /\ last[s].ret # "panic"
        /\ ray[s].kind = "KerrLightRay" =>
               /\ ray[s].black_hole.mass = last[s].args[3]
               /\ ray[s].black_hole.spin =
                      IF FLt(last[s].args[4], FNeg(last[s].args[3]))
                      THEN FNeg(last[s].args[3])
                      ELSE IF FGt(last[s].args[4], last[s].args[3])
                      THEN last[s].args[3]
                      ELSE last[s].args[4]

\* C15: every state of a session constructed away from the origin, before
\* and after any number of step() calls, has r >= 0 and theta in [0, pi].
C15_CoordinateRanges ==
    \A s \in Sessions :
        (ray[s].kind # "none" /\ last[s].args[1] # <<0, 0, 0>>)
            => /\ FGe(ray[s].geodesic.position[2], 0)
               /\ FGe(ray[s].geodesic.position[3], 0)
               /\ FLe(ray[s].geodesic.position[3], Pi)

\* The session and the record of its last call after n calls of step()
\* made on it alone.
RECURSIVE StepsAlone(_, _, _)
AfterStepAlone(res, r, l, n) ==
    StepsAlone(res.ray,
               [op |-> "step", args |-> l.args, pre |-> r,
                ret |-> res.ret, rule |-> res.rule,
                trues |-> l.trues + (IF res.ret = "true" THEN 1 ELSE 0),
                falses |-> l.falses + (IF res.ret = "false" THEN 1 ELSE 0)],
               n - 1)

StepsAlone(r, l, n) ==
    IF n = 0 THEN <<r, l>> ELSE AfterStepAlone(StepOf(r), r, l, n)

\* The session constructed by the call recorded in l and advanced alone by
\* as many calls as l counts.
Alone(kind, l) ==
    StepsAlone(IF kind = "LightRay"
               THEN LightRayNew(l.args[1], l.args[2], l.args[3])
               ELSE KerrLightRayNew(l.args[1], l.args[2],
                                    KerrBlackHoleNew(l.args[3], l.args[4])),
               [op |-> "new", args |-> l.args, pre |-> NoRay, ret |-> "none",
                rule |-> 0, trues |-> 0, falses |-> 0],
               l.trues + l.falses + (IF l.ret = "noreturn" THEN 1 ELSE 0))

\* C17: sessions advanced in any interleaving do not interact: each has the
\* state and the return values it has when advanced alone by the same
\* number of calls.
C17_SessionsIndependent ==
    \A s \in Sessions :
        ray[s].kind # "none" => <<ray[s], last[s]>> = Alone(ray[s].kind, last[s])

\* Two sessions of different models, both advanced, one of them stopped.
C17_Witness ==
    /\ ray[1].kind = "KerrLightRay"
    /\ ray[2].kind = "LightRay"
    /\ ray[1].step_count >= 2
    /\ ray[2].step_count >= 2
    /\ last[2].ret = "false"

(***************************************************************************)
(* What step() leaves alone, and the sign of the Kerr rates.               *)
(***************************************************************************)
\* The Kerr session as KerrLightRay::new made it from the recorded call.
KerrAsConstructed(l) ==
    KerrLightRayNew(l.args[1], l.args[2], KerrBlackHoleNew(l.args[3], l.args[4]))

\* C18: after any sequence of step() calls a Kerr session has the conserved
\* quantities, the black hole, the integrator configuration and max_steps
\* that KerrLightRay::new set.
C18_KerrFrame ==
    \A s \in Sessions :
        ray[s].kind = "KerrLightRay"
            => /\ ray[s].conserved = KerrAsConstructed(last[s]).conserved
               /\ ray[s].black_hole = KerrAsConstructed(last[s]).black_hole
               /\ ray[s].integrator = KerrAsConstructed(last[s]).integrator
               /\ ray[s].max_steps = KerrAsConstructed(last[s]).max_steps

\* A Kerr session whose state and step size have moved in two steps.
C18_Witness ==
    \E s \in Sessions :
        /\ ray[s].kind = "KerrLightRay"
        /\ ray[s].step_count >= 2
        /\ ray[s].geodesic # KerrAsConstructed(last[s]).geodesic
        /\ ray[s].step_size # KerrAsConstructed(last[s]).step_size

\* The Schwarzschild session as LightRay::new made it from the recorded call.
LightRayAsConstructed(l) == LightRayNew(l.args[1], l.args[2], l.args[3])

\* C19: after any sequence of step() calls a LightRay session has the
\* step_size, mass and max_steps it was constructed with and the initial
\* p_t, p_theta and p_phi: of the momentum only the radial component moves.
C19_LightRayFrame ==
    \A s \in Sessions :
        ray[s].kind = "LightRay"
            => /\ ray[s].step_size = LightRayAsConstructed(last[s]).step_size
               /\ ray[s].mass = LightRayAsConstructed(last[s]).mass
               /\ ray[s].max_steps = LightRayAsConstructed(last[s]).max_steps
               /\ \A i \in {1, 3, 4} :
                      ray[s].geodesic.momentum[i] =
                          LightRayAsConstructed(last[s]).geodesic.momentum[i]

\* A session with polar and azimuthal momentum whose radial momentum and
\* position have moved in two steps.
C19_Witness ==
    \E s \in Sessions :
        /\ ray[s].kind = "LightRay"
        /\ ray[s].step_count >= 2
        /\ ray[s].geodesic.momentum[3] # 0
        /\ ray[s].geodesic.momentum[4] # 0
        /\ ray[s].geodesic.momentum[2] #
               LightRayAsConstructed(last[s]).geodesic.momentum[2]
        /\ ray[s].geodesic.position #
               LightRayAsConstructed(last[s]).geodesic.position

\* The radial potential R = [E (r^2 + a^2) - a Lz]^2 - Delta [(Lz - a E)^2 + Q]
\* and the polar potential Q - cos^2 [a^2 (0 - E^2) + Lz^2 / sin^2] of a
\* Kerr session in its current state.
RadialPotential(c, spin, del, r2a2) ==
    FSub(FMul(FSub(FMul(c.energy, r2a2), FMul(spin, c.angular_momentum_z)),
              FSub(FMul(c.energy, r2a2), FMul(spin, c.angular_momentum_z))),
         FMul(del,
              FAdd(FMul(FSub(c.angular_momentum_z, FMul(spin, c.energy)),
                        FSub(c.angular_momentum_z, FMul(spin, c.energy))),
                   c.carter_constant)))

PolarPotential(c, spin, sin2, cos2) ==
    FSub(c.carter_constant,
         FMul(cos2, FAdd(FMul(FMul(spin, spin), FSub(0, FMul(c.energy, c.energy))),
                         FDiv(FMul(c.angular_momentum_z, c.angular_momentum_z), sin2))))

KerrRadialPotential(r) ==
    RadialPotential(r.conserved, r.black_hole.spin,
                    delta(r.geodesic.position[2], r.black_hole.mass, r.black_hole.spin),
                    FAdd(FMul(r.geodesic.position[2], r.geodesic.position[2]),
                         FMul(r.black_hole.spin, r.black_hole.spin)))

KerrPolarPotential(r) ==
    PolarPotential(r.conserved, r.black_hole.spin,
                   FMul(FSin(r.geodesic.position[3]), FSin(r.geodesic.position[3])),
                   FMul(FCos(r.geodesic.position[3]), FCos(r.geodesic.position[3])))

KerrSigma(r) == sigma(r.geodesic.position[2], r.geodesic.position[3], r.black_hole.spin)

\* The rate is sqrt(potential) / Sigma where the potential is >= 0 and
\* exactly 0 elsewhere, and is >= 0 where Sigma > 0.
RootRate(rate, potential, sig) ==
    /\ rate = IF FGe(potential, 0) THEN FDiv(FSqrt(potential), sig) ELSE 0
    /\ FGt(sig, 0) => FGe(rate, 0)

\* C20: in every state of a Kerr session, whatever its initial direction,
\* the derivative function returns dr/dlambda = sqrt(R) / Sigma for R >= 0
\* and 0 for R < 0, likewise dtheta/dlambda for the polar potential, and
\* for Sigma > 0 neither is negative.
C20_KerrRatesNotNegative ==
    \A s \in Sessions :
        ray[s].kind = "KerrLightRay"
            => /\ RootRate(compute_kerr_derivatives(ray[s].conserved, ray[s].black_hole,
                                                    ray[s].geodesic).position[2],
                           KerrRadialPotential(ray[s]), KerrSigma(ray[s]))
               /\ RootRate(compute_kerr_derivatives(ray[s].conserved, ray[s].black_hole,
                                                    ray[s].geodesic).position[3],
                           KerrPolarPotential(ray[s]), KerrSigma(ray[s]))

\* A Kerr session sent inwards whose radial rate is positive all the same.
C20_Witness ==
    \E s \in Sessions :
        /\ ray[s].kind = "KerrLightRay"
        /\ FLt(ray[s].geodesic.momentum[2], 0)
        /\ FGt(KerrSigma(ray[s]), 0)
        /\ FGt(KerrRadialPotential(ray[s]), 0)
        /\ FGt(compute_kerr_derivatives(ray[s].conserved, ray[s].black_hole,
                                        ray[s].geodesic).position[2], 0)

(***************************************************************************)
(* The potentials, the metric and the radii of the black hole.             *)
(***************************************************************************)
\* Theta = Q - cos^2 [a^2 (1 - E^2) + Lz^2 / sin^2].
PolarPotentialWithUnitMass(c, spin, sin2, cos2) ==
    FSub(c.carter_constant,
         FMul(cos2, FAdd(FMul(FMul(spin, spin),
                              FSub(Lit(1), FMul(c.energy, c.energy))),
                         FDiv(FMul(c.angular_momentum_z, c.angular_momentum_z), sin2))))

\* C21: in every state of a Kerr session the polar potential the derivative
\* function evaluates is Q - cos^2(theta) [a^2 (1 - E^2) + Lz^2 / sin^2(theta)].
C21_PolarPotential ==
    \A s \in Sessions :
        ray[s].kind = "KerrLightRay"
            => KerrThetaPotential(ray[s].conserved.energy,
                                  ray[s].conserved.angular_momentum_z,
                                  ray[s].conserved.carter_constant,
                                  ray[s].black_hole.spin,
                                  FMul(FSin(ray[s].geodesic.position[3]),
                                       FSin(ray[s].geodesic.position[3])),
                                  FMul(FCos(ray[s].geodesic.position[3]),
                                       FCos(ray[s].geodesic.position[3])))
               = PolarPotentialWithUnitMass(
                     ray[s].conserved, ray[s].black_hole.spin,
                     FMul(FSin(ray[s].geodesic.position[3]),
                          FSin(ray[s].geodesic.position[3])),
                     FMul(FCos(ray[s].geodesic.position[3]),
                          FCos(ray[s].geodesic.position[3])))

\* C22: for spin = 0, r > 2M and any theta, metric_components returns the
\* g_tt, g_rr, g_theta_theta and g_phi_phi of the schwarzschild module, and
\* zero for g_tr, g_tphi and g_rphi.
C22_ZeroSpinLimit ==
    (/\ eval.pc = "returned"
     /\ eval.fn = "metric_components"
     /\ eval.args[4] = 0
     /\ FGt(eval.args[1], FMul(Lit(2), eval.args[3])))
        => /\ eval.out[1][1] = g_tt(eval.args[3], eval.args[1])
           /\ eval.out[2][2] = g_rr(eval.args[3], eval.args[1])
           /\ eval.out[3][3] = g_theta_theta(eval.args[1])
           /\ eval.out[4][4] = g_phi_phi(eval.args[1], eval.args[2])
           /\ eval.out[1][2] = 0 /\ eval.out[2][1] = 0
           /\ eval.out[1][4] = 0 /\ eval.out[4][1] = 0
           /\ eval.out[2][4] = 0 /\ eval.out[4][2] = 0

\* C23: for every black hole built by KerrBlackHole::new with mass > 0 and
\* every theta, 0 <= inner_horizon <= outer_horizon <= ergosphere_radius(theta)
\* <= 2 * mass, and outer_horizon = 2 * mass when spin = 0.
C23_RadiiOrdered ==
    (/\ eval.pc = "returned"
     /\ eval.fn = "radii"
     /\ FGt(eval.args[1], 0))
        => /\ FLe(0, eval.out.inner_horizon)
           /\ FLe(eval.out.inner_horizon, eval.out.outer_horizon)
           /\ FLe(eval.out.outer_horizon, eval.out.ergosphere_radius)
           /\ FLe(eval.out.ergosphere_radius, FMul(Lit(2), eval.args[1]))
           /\ eval.args[2] = 0 => eval.out.outer_horizon = FMul(Lit(2), eval.args[1])

\* C24: from_initial_conditions returns energy = -p_t and
\* angular_momentum_z = p_phi for every input; its carter_constant is not
\* negative when energy^2 >= 1, or spin = 0, or cos(theta) = 0, and is
\* negative only for inputs with energy^2 < 1, spin # 0 and cos(theta) # 0.
C24_ConservedQuantities ==
    (eval.pc = "returned" /\ eval.fn = "from_initial_conditions")
        => /\ eval.out.energy = FNeg(eval.args[2][1])
           /\ eval.out.angular_momentum_z = eval.args[2][4]
           /\ (\/ FGe(FMul(eval.out.energy, eval.out.energy), Lit(1))
               \/ eval.args[4] = 0
               \/ FCos(eval.args[1][3]) = 0)
                  => FGe(eval.out.carter_constant, 0)
           /\ FLt(eval.out.carter_constant, 0)
                  => /\ FLt(FMul(eval.out.energy, eval.out.energy), Lit(1))
                     /\ eval.args[4] # 0
                     /\ FCos(eval.args[1][3]) # 0

(***************************************************************************)
(* The sphere mesh.                                                        *)
(***************************************************************************)
\* C25: generate_sphere(radius, lat, lon) returns (lat + 1) * (lon + 1)
\* vertices and every index it emits is smaller than the number of
\* vertices, also when that number exceeds the range of u16.
C25_SphereMesh ==
    (eval.pc = "returned" /\ eval.fn = "generate_sphere")
        => /\ Len(eval.out.vertices) = (eval.args[2] + 1) * (eval.args[3] + 1)
           /\ \A i \in 1..Len(eval.out.indices) :
                  eval.out.indices[i] < Len(eval.out.vertices)

\* A sphere with more vertices than a u16 counts, whose last quad wrapped.
C25_Witness ==
    /\ eval.pc = "returned"
    /\ eval.fn = "generate_sphere"
    /\ Len(eval.out.vertices) > 65536
    /\ Len(eval.out.indices) = 3 * eval.args[3]
    /\ eval.out.indices[Len(eval.out.indices)] = 1

(***************************************************************************)
(* Capture, the step size and the conserved quantities of a session.       *)
(***************************************************************************)
\* The session is at or inside its capture radius.
AtOrInsideCapture(r) ==
    r.kind # "none" /\ FLe(radius(r.geodesic), CaptureRadius(r))

\* C26: a continuing step() that leaves the session at or inside the
\* capture radius still returns true; the next step() call on it returns
\* false and changes nothing, so no session is integrated further from a
\* state at or inside its capture radius.
C26_CaptureOneCallLate ==
    [][\A s \in Sessions :
          (last'[s] # last[s] /\ last'[s].op = "step")
              => /\ (last'[s].rule = 3 /\ last'[s].ret # "noreturn")
                       => last'[s].ret = "true"
                 /\ AtOrInsideCapture(ray[s])
                       => (last'[s].ret = "false" /\ ray'[s] = ray[s])]_vars

\* A session that a continuing step took across its capture radius, stopped
\* by the call after it.
C26_Witness ==
    \E s \in Sessions :
        /\ Stepped(s)
        /\ last[s].ret = "false"
        /\ last[s].rule = 2
        /\ last[s].falses = 1
        /\ last[s].trues >= 1
        /\ AtOrInsideCapture(ray[s])

\* C27: in every state of a Kerr session step_size lies in
\* [integrator.min_step, integrator.max_step], and after each continuing
\* step() it is the suggested_next_step of the accepted integrator call, not
\* the step that call used.
C27_KerrStepSize ==
    \A s \in Sessions :
        ray[s].kind = "KerrLightRay"
            => /\ InStepRange(ray[s].integrator, ray[s].step_size)
               /\ (Stepped(s) /\ last[s].ret = "true")
                      => ray[s].step_size =
                             AdaptiveRK45Step(last[s].pre.integrator,
                                              last[s].pre.geodesic,
                                              last[s].pre.step_size,
                                              KerrDerivativesFn(last[s].pre)).suggested_next_step


OtherMomenta == { <<Lit(1), 0, 0, 0>>, <<Lit(-3), Lit(7), Lit(-2), Lit(40)>> }

OtherTimes == { 0, Lit(5) }

OtherPhis == { 0, Lit(-2) }

OtherRadialDirections == { 0, Lit(3) }

\* The derivative a Kerr session's closure returns at its current state.
KerrDerivativeNow(s) == Derivs(KerrDerivativesFn(ray[s]), ray[s].geodesic)

\* C29: the derivative compute_kerr_derivatives returns depends only on r
\* and theta of the state, the conserved quantities and the black hole:
\* evaluated at a state with another momentum, t or phi, or for a session
\* constructed with another ray_dir[0], it returns the same derivative, and
\* its momentum part equals its position part.
C29_KerrDerivativeReads ==
    \A s \in Sessions :
        ray[s].kind = "KerrLightRay"
            => /\ KerrDerivativeNow(s).momentum = KerrDerivativeNow(s).position
               /\ \A m \in OtherMomenta, t \in OtherTimes, phi \in OtherPhis :
                      Derivs(KerrDerivativesFn(ray[s]),
                             GeodesicNew(<<t, ray[s].geodesic.position[2],
                                           ray[s].geodesic.position[3], phi>>, m))
                          = KerrDerivativeNow(s)
               /\ \A d \in OtherRadialDirections :
                      Derivs(KerrDerivativesFn(
                                 KerrLightRayNew(last[s].args[1],
                                                 <<d, last[s].args[2][2], last[s].args[2][3]>>,
                                                 ray[s].black_hole)),
                             ray[s].geodesic)
                          = KerrDerivativeNow(s)

\* A Kerr session around a spinning hole, off the axis and the equator,
\* that has moved in a step and whose derivative is finite with a non-zero
\* radial rate.
C29_Witness ==
    \E s \in Sessions :
        /\ ray[s].kind = "KerrLightRay"
        /\ ray[s].black_hole.spin # 0
        /\ Stepped(s)
        /\ last[s].ret = "true"
        /\ ray[s].geodesic.momentum # InitialMomentum(last[s].args[2])
        /\ ray[s].geodesic.position[1] # 0
        /\ ray[s].geodesic.position[4] # 0
        /\ FiniteGeodesic(KerrDerivativeNow(s))
        /\ KerrDerivativeNow(s).position[2] # 0
        /\ KerrDerivativeNow(s).position[3] # 0

(***************************************************************************)
(* renderer: CameraController and the Camera it drives.  Angles are in     *)
(* degrees, pixel positions and tap timestamps (seconds) are f64 values on *)
(* the same grid; Option<T> is a sequence of at most one element.          *)
(***************************************************************************)
None == <<>>

Some(x) == <<x>>

Zero3 == <<0, 0, 0>>

UnitY == <<0, Lit(1), 0>>

Vec3Add(a, b) == <<FAdd(a[1], b[1]), FAdd(a[2], b[2]), FAdd(a[3], b[3])>>

Vec3Sub(a, b) == <<FSub(a[1], b[1]), FSub(a[2], b[2]), FSub(a[3], b[3])>>

Vec3Scale(v, k) == <<FMul(v[1], k), FMul(v[2], k), FMul(v[3], k)>>

Vec3Magnitude(v) ==
    FSqrt(FAdd(FAdd(FMul(v[1], v[1]), FMul(v[2], v[2])), FMul(v[3], v[3])))

\* cgmath's normalize(): the vector times 1 / magnitude.
Vec3Normalize(v) == Vec3Scale(v, FDiv(Lit(1), Vec3Magnitude(v)))

Vec3Cross(a, b) ==
    <<FSub(FMul(a[2], b[3]), FMul(a[3], b[2])),
      FSub(FMul(a[3], b[1]), FMul(a[1], b[3])),
      FSub(FMul(a[1], b[2]), FMul(a[2], b[1]))>>

\* f32::to_radians.  The factor pi / 180 lies below the precision of the
\* grid, so the product is taken before the division.
ToRadians(deg) == FDiv(FMul(deg, Pi), Lit(180))

\* The view direction of a yaw and a pitch, as reset_camera and
\* update_camera both compute it.
Forward(yaw, pitch) ==
    Vec3Normalize(<<FMul(FCos(ToRadians(yaw)), FCos(ToRadians(pitch))),
                    FSin(ToRadians(pitch)),
                    FMul(FSin(ToRadians(yaw)), FCos(ToRadians(pitch)))>>)

\* Camera::new, of which the controller reads and writes eye, target and up.
CameraNew(eye, target, up) == [eye |-> eye, target |-> target, up |-> up]

\* CameraController::new
CameraControllerNew(speed) ==
    [amount_left |-> 0, amount_right |-> 0, amount_forward |-> 0,
     amount_backward |-> 0, amount_up |-> 0, amount_down |-> 0,
     mousewheel_forward |-> 0,
     speed |-> speed,
     max_speed |-> FMul(speed, Lit(3)),
     acceleration |-> FMul(speed, Lit(5)),
     current_velocity |-> Zero3,
     sensitivity |-> Q(1, 10),
     yaw |-> Lit(270),
     pitch |-> 0,
     touch_joystick_id |-> None,
     touch_joystick_center |-> None,
     touch_joystick_current |-> None,
     touch_look_id |-> None,
     touch_look_start_pos |-> None,
     show_stars |-> TRUE, show_grid |-> FALSE, show_help |-> FALSE,
     show_fps |-> FALSE, show_profiling |-> FALSE,
     last_key |-> None,
     frame_count |-> 0,
     fps |-> 0,
     last_fps_time |-> 0,
     initial_position |-> <<0, 0, Lit(-40)>>,
     initial_yaw |-> Lit(270),
     initial_pitch |-> 0,
     reset_requested |-> FALSE,
     last_tap_times |-> <<>>,
     triple_tap_threshold |-> Q(1, 2)]

\* CameraController::set_initial_camera_state
set_initial_camera_state(ctl, position, yaw, pitch) ==
    [ctl EXCEPT !.initial_position = position,
                !.initial_yaw = yaw,
                !.initial_pitch = pitch]

\* CameraController::reset_camera: the controller and the camera it leaves.
reset_camera(ctl, camera) ==
    [ctl |-> [ctl EXCEPT !.yaw = ctl.initial_yaw,
                         !.pitch = ctl.initial_pitch,
                         !.current_velocity = Zero3],
     camera |-> [camera EXCEPT
                    !.eye = ctl.initial_position,
                    !.target = Vec3Add(ctl.initial_position,
                                       Forward(ctl.initial_yaw, ctl.initial_pitch)),
                    !.up = UnitY]]

check_and_clear_reset_request_KeepsRequest(ctl) ==
    [ret |-> ctl.reset_requested, ctl |-> ctl]

\* CameraController::check_and_clear_reset_request
check_and_clear_reset_request(ctl) ==
    IF ctl.reset_requested
    THEN [ret |-> TRUE, ctl |-> [ctl EXCEPT !.reset_requested = FALSE]]
    ELSE [ret |-> FALSE, ctl |-> ctl]

\* retain(|&t| t > cutoff_time)
RecentTaps(taps, cutoff_time) == SelectSeq(taps, LAMBDA t : FGt(t, cutoff_time))

\* CameraController::check_triple_tap
check_triple_tap(ctl, timestamp) ==
    IF Len(RecentTaps(Append(ctl.last_tap_times, timestamp),
                      FSub(timestamp, ctl.triple_tap_threshold))) >= 3
    THEN [ret |-> TRUE, ctl |-> [ctl EXCEPT !.last_tap_times = <<>>]]
    ELSE [ret |-> FALSE,
          ctl |-> [ctl EXCEPT !.last_tap_times =
                       RecentTaps(Append(ctl.last_tap_times, timestamp),
                                  FSub(timestamp, ctl.triple_tap_threshold))]]

\* process_touch, TouchPhase::Started, once the tap was not a triple tap.
TouchStarted(ctl, id, pos, half_width) ==
    IF FLt(pos[1], half_width)
    THEN IF ctl.touch_joystick_id = None
         THEN [ctl EXCEPT !.touch_joystick_id = Some(id),
                          !.touch_joystick_center = Some(pos),
                          !.touch_joystick_current = Some(pos)]
         ELSE ctl
    ELSE IF ctl.touch_look_id = None
         THEN [ctl EXCEPT !.touch_look_id = Some(id),
                          !.touch_look_start_pos = Some(pos)]
         ELSE ctl

\* process_touch, TouchPhase::Moved
TouchMoved(ctl, id, pos) ==
    IF Some(id) = ctl.touch_joystick_id
    THEN [ctl EXCEPT !.touch_joystick_current = Some(pos)]
    ELSE IF Some(id) = ctl.touch_look_id
         THEN IF ctl.touch_look_start_pos # None
              THEN [ctl EXCEPT
                       !.yaw = FSub(ctl.yaw,
                                    FMul(FMul(FSub(pos[1], ctl.touch_look_start_pos[1][1]),
                                              ctl.sensitivity), Q(1, 2))),
                       !.pitch = FAdd(ctl.pitch,
                                      FMul(FMul(FSub(pos[2], ctl.touch_look_start_pos[1][2]),
                                                ctl.sensitivity), Q(1, 2))),
                       !.touch_look_start_pos = Some(pos)]
              ELSE [ctl EXCEPT !.touch_look_start_pos = Some(pos)]
         ELSE ctl

\* process_touch, TouchPhase::Ended | TouchPhase::Cancelled
TouchEnded(ctl, id) ==
    IF Some(id) = ctl.touch_joystick_id
    THEN [ctl EXCEPT !.touch_joystick_id = None,
                     !.touch_joystick_center = None,
                     !.touch_joystick_current = None]
    ELSE IF Some(id) = ctl.touch_look_id
         THEN [ctl EXCEPT !.touch_look_id = None, !.touch_look_start_pos = None]
         ELSE ctl

\* CameraController::process_touch; timestamp is the clock reading a
\* Started touch takes.
process_touch(ctl, phase, id, pos, width, timestamp) ==
    CASE phase = "Started" ->
             IF check_triple_tap(ctl, timestamp).ret
             THEN [check_triple_tap(ctl, timestamp).ctl EXCEPT !.reset_requested = TRUE]
             ELSE TouchStarted(check_triple_tap(ctl, timestamp).ctl, id, pos,
                               FDiv(width, Lit(2)))
      [] phase = "Moved" -> TouchMoved(ctl, id, pos)
      [] OTHER -> TouchEnded(ctl, id)

Amount(state) == IF state = "Pressed" THEN Lit(1) ELSE 0

Toggled(flag, state) == IF state = "Pressed" THEN ~flag ELSE flag

\* The match of process_keyboard.
KeyEffect(ctl, key, state) ==
    CASE key \in {"KeyW", "ArrowUp"} -> [ctl EXCEPT !.amount_forward = Amount(state)]
      [] key \in {"KeyS", "ArrowDown"} -> [ctl EXCEPT !.amount_backward = Amount(state)]
      [] key \in {"KeyA", "ArrowLeft"} -> [ctl EXCEPT !.amount_left = Amount(state)]
      [] key \in {"KeyD", "ArrowRight"} -> [ctl EXCEPT !.amount_right = Amount(state)]
      [] key = "Space" -> [ctl EXCEPT !.amount_up = Amount(state)]
      [] key = "ShiftLeft" -> [ctl EXCEPT !.amount_down = Amount(state)]
      [] key = "KeyQ" -> [ctl EXCEPT !.yaw = FAdd(ctl.yaw, Lit(2))]
      [] key = "KeyE" -> [ctl EXCEPT !.yaw = FSub(ctl.yaw, Lit(2))]
      [] key = "KeyB" -> [ctl EXCEPT !.show_stars = Toggled(ctl.show_stars, state)]
      [] key = "KeyG" -> [ctl EXCEPT !.show_grid = Toggled(ctl.show_grid, state)]
      [] key = "Slash" -> [ctl EXCEPT !.show_help = Toggled(ctl.show_help, state)]
      [] key = "KeyF" -> [ctl EXCEPT !.show_fps = Toggled(ctl.show_fps, state)]
      [] key = "KeyP" -> [ctl EXCEPT !.show_profiling = Toggled(ctl.show_profiling, state)]
      [] key = "KeyR" -> [ctl EXCEPT !.reset_requested =
                                         (state = "Pressed") \/ ctl.reset_requested]
      [] OTHER -> ctl

\* CameraController::process_keyboard
process_keyboard(ctl, key, state) ==
    KeyEffect(IF state = "Pressed" THEN [ctl EXCEPT !.last_key = Some(key)] ELSE ctl,
              key, state)

\* The FPS tracking of update_camera.
FpsTracked(ctl, frame_count, last_fps_time) ==
    IF FGe(last_fps_time, Lit(1))
    THEN [ctl EXCEPT !.fps = FDiv(Lit(frame_count), last_fps_time),
                     !.frame_count = 0,
                     !.last_fps_time = 0]
    ELSE [ctl EXCEPT !.frame_count = frame_count, !.last_fps_time = last_fps_time]

\* The deflection of the virtual joystick: <<touch_strafe, touch_fwd>>.
JoystickRadius == Lit(100)

TouchInput(ctl) ==
    IF ctl.touch_joystick_center # None /\ ctl.touch_joystick_current # None
    THEN <<FClamp(FDiv(FSub(ctl.touch_joystick_current[1][1],
                            ctl.touch_joystick_center[1][1]), JoystickRadius),
                  Lit(-1), Lit(1)),
           FClamp(FDiv(FNeg(FSub(ctl.touch_joystick_current[1][2],
                                 ctl.touch_joystick_center[1][2])), JoystickRadius),
                  Lit(-1), Lit(1))>>
    ELSE <<0, 0>>

\* The velocity the input asks for.
TargetVelocity(ctl, touch) ==
    <<FMul(FAdd(FSub(ctl.amount_right, ctl.amount_left), touch[1]), ctl.max_speed),
      FMul(FSub(ctl.amount_up, ctl.amount_down), ctl.max_speed),
      FMul(FSub(ctl.amount_backward,
                FAdd(FAdd(ctl.amount_forward, touch[2]),
                     FMul(ctl.mousewheel_forward, Q(1, 10)))),
           ctl.max_speed)>>

\* The acceleration of the current velocity towards the target velocity.
Accelerated(current_velocity, target_velocity, velocity_diff, acceleration_step) ==
    IF FGt(Vec3Magnitude(velocity_diff), Q(1, 100))
    THEN IF FGt(Vec3Magnitude(acceleration_step), Vec3Magnitude(velocity_diff))
         THEN target_velocity
         ELSE Vec3Add(current_velocity, acceleration_step)
    ELSE target_velocity

\* The gradual slowdown when there is no input.
Dampened(velocity, target_velocity) ==
    IF FLt(Vec3Magnitude(target_velocity), Q(1, 100))
    THEN Vec3Scale(velocity, Q(95, 100))
    ELSE velocity

NextVelocity(ctl, target_velocity, dt) ==
    Dampened(Accelerated(ctl.current_velocity, target_velocity,
                         Vec3Sub(target_velocity, ctl.current_velocity),
                         Vec3Scale(Vec3Scale(Vec3Normalize(
                                                 Vec3Sub(target_velocity,
                                                         ctl.current_velocity)),
                                             ctl.acceleration), dt)),
             target_velocity)

\* The eye moved by the velocity in world space.
MovedEye(eye, forward, right, up, velocity, dt) ==
    Vec3Add(Vec3Add(Vec3Add(eye, Vec3Scale(Vec3Scale(forward, velocity[3]), dt)),
                    Vec3Scale(Vec3Scale(right, velocity[1]), dt)),
            Vec3Scale(Vec3Scale(up, velocity[2]), dt))

\* update_camera past the reset check, with the pitch clamped and the view
\* axes and the new velocity computed.
MoveCamera(ctl, camera, dt, forward, right, up, velocity) ==
    [ctl |-> [FpsTracked(ctl, ctl.frame_count + 1, FAdd(ctl.last_fps_time, dt))
                 EXCEPT !.current_velocity = velocity,
                        !.mousewheel_forward = FMul(ctl.mousewheel_forward, Q(9, 10))],
     camera |-> [camera EXCEPT
                    !.eye = MovedEye(camera.eye, forward, right, up, velocity, dt),
                    !.target = Vec3Add(MovedEye(camera.eye, forward, right, up,
                                                velocity, dt), forward),
                    !.up = up],
     reset |-> FALSE]

Right(forward) == Vec3Normalize(Vec3Cross(forward, UnitY))

UpOf(forward) == Vec3Normalize(Vec3Cross(Right(forward), forward))

PitchClamped(ctl) == [ctl EXCEPT !.pitch = FClamp(ctl.pitch, Lit(-89), Lit(89))]

UpdateMoving(ctl, camera, dt) ==
    MoveCamera(ctl, camera, dt,
               Forward(ctl.yaw, ctl.pitch),
               Right(Forward(ctl.yaw, ctl.pitch)),
               UpOf(Forward(ctl.yaw, ctl.pitch)),
               NextVelocity(ctl, TargetVelocity(ctl, TouchInput(ctl)), dt))

\* The two outcomes of update_camera's reset check.
UpdateAfterCheck(checked, camera, dt) ==
    IF checked.ret
    THEN [ctl |-> reset_camera(checked.ctl, camera).ctl,
          camera |-> reset_camera(checked.ctl, camera).camera,
          reset |-> TRUE]
    ELSE UpdateMoving(PitchClamped(checked.ctl), camera, dt)

\* CameraController::update_camera: the controller and the camera it
\* leaves, and whether it returned early after a reset.
update_camera(ctl, camera, dt) ==
    UpdateAfterCheck(check_and_clear_reset_request(ctl), camera, dt)

(***************************************************************************)
(* The renderer's event loop around one CameraController: window events    *)
(* and frames in any order.  cam.clock is the last reading of the clock    *)
(* touch starts are stamped with, cam.touch_starts the stamps of the touch *)
(* starts since the last triple tap, cam.op the call made last.            *)
(***************************************************************************)
MaxCamEvents == 3

MaxCamUpdates == 2

CamKeyEvents ==
    { <<"KeyW", "Pressed">>, <<"KeyQ", "Pressed">>, <<"KeyR", "Pressed">>,
      <<"KeyR", "Released">> }

TouchId == 1

TouchPositions == { <<Lit(100), Lit(300)>>, <<Lit(700), Lit(300)>> }

TouchMovePositions == { <<Lit(720), Lit(340)>> }

WindowWidth == Lit(800)

\* The time between two touch starts.
TapGaps == { Q(1, 5), Q(3, 10) }

FrameTimes == { Q(3, 5) }

\* State::new: the camera, and the controller told the camera's eye.
StartCamera == CameraNew(<<0, Lit(-1), Lit(-40)>>, Zero3, UnitY)

StartController ==
    set_initial_camera_state(CameraControllerNew(Lit(4)), StartCamera.eye, Lit(270), 0)

NoCamCall == [name |-> "none", key |-> "none", state |-> "none", reset |-> FALSE]

InitCam ==
    /\ ray = [s \in Sessions |-> NoRay]
    /\ last = [s \in Sessions |-> NoCall]
    /\ rk = RkIdle
    /\ eval = EvalIdle
    /\ cam = [pc |-> "running", ctl |-> StartController, camera |-> StartCamera,
              clock |-> Lit(10), touch_starts |-> <<>>, events |-> 0, updates |-> 0,
              resets |-> 0, op |-> NoCamCall]

\* Three touch starts, the one stamped timestamp among them, lie less than
\* the threshold apart.
TripleTap(touch_starts, timestamp, threshold) ==
    Cardinality({ i \in 1..Len(touch_starts) :
                      FLt(FSub(timestamp, touch_starts[i]), threshold) }) + 1 >= 3

\* WindowEvent::KeyboardInput
CamProcessKeyboard ==
    /\ cam.events < MaxCamEvents
    /\ \E ev \in CamKeyEvents :
          cam' = [cam EXCEPT !.ctl = process_keyboard(cam.ctl, ev[1], ev[2]),
                             !.events = cam.events + 1,
                             !.op = [name |-> "process_keyboard", key |-> ev[1],
                                     state |-> ev[2], reset |-> FALSE]]
    /\ UNCHANGED <<ray, last, rk, eval>>

\* WindowEvent::Touch, TouchPhase::Started
CamTouchStarted ==
    /\ cam.events < MaxCamEvents
    /\ \E pos \in TouchPositions, gap \in TapGaps :
          cam' = [cam EXCEPT
                     !.ctl = process_touch(cam.ctl, "Started", TouchId, pos, WindowWidth,
                                           FAdd(cam.clock, gap)),
                     !.clock = FAdd(cam.clock, gap),
                     !.touch_starts =
                         IF TripleTap(cam.touch_starts, FAdd(cam.clock, gap),
                                      cam.ctl.triple_tap_threshold)
                         THEN <<>>
                         ELSE Append(cam.touch_starts, FAdd(cam.clock, gap)),
                     !.events = cam.events + 1,
                     !.op = [name |-> "process_touch", key |-> "none",
                             state |-> "Started", reset |-> FALSE]]
    /\ UNCHANGED <<ray, last, rk, eval>>

\* WindowEvent::Touch, TouchPhase::Moved
CamTouchMoved ==
    /\ cam.events < MaxCamEvents
    /\ \E pos \in TouchMovePositions :
          cam' = [cam EXCEPT
                     !.ctl = process_touch(cam.ctl, "Moved", TouchId, pos, WindowWidth,
                                           cam.clock),
                     !.events = cam.events + 1,
                     !.op = [name |-> "process_touch", key |-> "none",
                             state |-> "Moved", reset |-> FALSE]]
    /\ UNCHANGED <<ray, last, rk, eval>>

\* WindowEvent::Touch, TouchPhase::Ended
CamTouchEnded ==
    /\ cam.events < MaxCamEvents
    /\ cam' = [cam EXCEPT
                  !.ctl = process_touch(cam.ctl, "Ended", TouchId, <<0, 0>>, WindowWidth,
                                        cam.clock),
                  !.events = cam.events + 1,
                  !.op = [name |-> "process_touch", key |-> "none",
                          state |-> "Ended", reset |-> FALSE]]
    /\ UNCHANGED <<ray, last, rk, eval>>

\* State::render: one frame.
CamUpdateCamera ==
    /\ cam.updates < MaxCamUpdates
    /\ \E dt \in FrameTimes :
          cam' = [cam EXCEPT
                     !.ctl = update_camera(cam.ctl, cam.camera, dt).ctl,
                     !.camera = update_camera(cam.ctl, cam.camera, dt).camera,
                     !.updates = cam.updates + 1,
                     !.resets = cam.resets
                                   + (IF update_camera(cam.ctl, cam.camera, dt).reset
                                      THEN 1 ELSE 0),
                     !.op = [name |-> "update_camera", key |-> "none", state |-> "none",
                             reset |-> update_camera(cam.ctl, cam.camera, dt).reset]]
    /\ UNCHANGED <<ray, last, rk, eval>>

NextCam ==
    \/ CamProcessKeyboard
    \/ CamTouchStarted
    \/ CamTouchMoved
    \/ CamTouchEnded
    \/ CamUpdateCamera

SpecCam == InitCam /\ [][NextCam]_vars

(***************************************************************************)
(* The camera reset request.                                               *)
(***************************************************************************)
\* The call just made is update_camera.
CamUpdated == cam'.updates = cam.updates + 1

\* The call just made is the window event named.
CamEvent(name, key, state) ==
    /\ cam'.events = cam.events + 1
    /\ cam'.op.name = name
    /\ cam'.op.key = key
    /\ cam'.op.state = state

\* update_camera went past the reset check: it counted the frame.
CamFrameCounted ==
    \/ cam'.ctl.frame_count = cam.ctl.frame_count + 1
    \/ cam'.ctl.frame_count = 0 /\ cam'.ctl.last_fps_time = 0

\* C30: a camera reset request is one-shot.  An R key press requests a
\* reset, and so does a touch start that is the third within 0.5 s (later
\* than 0.5 s before it, as the code means the word), which also clears the
\* tap history; nothing else requests one.  The update_camera call that
\* finds a request restores eye, yaw and pitch to the stored initial values,
\* zeroes the velocity, clears the request and returns without counting the
\* frame or moving; an update_camera call that finds no request does not
\* reset.
C30_ResetOneShot ==
    [][ /\ CamEvent("process_keyboard", "KeyR", "Pressed") => cam'.ctl.reset_requested
        /\ CamEvent("process_touch", "none", "Started")
               => IF TripleTap(cam.touch_starts, cam'.clock, Q(1, 2))
                  THEN cam'.ctl.reset_requested /\ cam'.ctl.last_tap_times = <<>>
                  ELSE cam'.ctl.reset_requested = cam.ctl.reset_requested
        /\ (cam'.ctl.reset_requested /\ ~cam.ctl.reset_requested)
               => \/ CamEvent("process_keyboard", "KeyR", "Pressed")
                  \/ CamEvent("process_touch", "none", "Started")
        /\ (CamUpdated /\ cam.ctl.reset_requested)
               => /\ cam'.op.reset
                  /\ cam'.camera.eye = cam.ctl.initial_position
                  /\ cam'.ctl.yaw = cam.ctl.initial_yaw
                  /\ cam'.ctl.pitch = cam.ctl.initial_pitch
                  /\ cam'.ctl.current_velocity = Zero3
                  /\ ~cam'.ctl.reset_requested
                  /\ cam'.ctl = [cam.ctl EXCEPT !.yaw = cam.ctl.initial_yaw,
                                                !.pitch = cam.ctl.initial_pitch,
                                                !.current_velocity = Zero3,
                                                !.reset_requested = FALSE]
        /\ (CamUpdated /\ ~cam.ctl.reset_requested)
               => /\ ~cam'.op.reset
                  /\ ~cam'.ctl.reset_requested
                  /\ CamFrameCounted
      ]_vars

\* A frame that moved the camera instead of resetting it again, after an R
\* key press and the frame that reset the camera for it.
C30_Witness ==
    /\ cam.pc = "running"
    /\ cam.ctl.last_key = Some("KeyR")
    /\ cam.updates = 2
    /\ cam.resets = 1
    /\ cam.op.name = "update_camera"
    /\ ~cam.op.reset
    /\ ~cam.ctl.reset_requested
    /\ cam.ctl.frame_count = 1
    /\ cam.camera.eye # cam.ctl.initial_position
=============================================================================
